---- MODULE Spec2Model ----
\* A model of the two interactive navigators of gw: the picker
\* (src/src/picker.rs, pick_worktree) and the older `gw go` navigator
\* (src/src/go_tui.rs, run_go).  Strings are sequences of one-character
\* strings; paths are strings.
EXTENDS Integers, Sequences, FiniteSets, TLC

\* ------------------------------------------------------------------ bounds
\* Longest filter text the model lets the user type.
MaxFilterLen == 1
\* Most worktrees a repository holds (main worktree included).
MaxWorktrees == 3

\* ------------------------------------------------------- program constants
HotkeyTimeoutMs == 1500
DoubleTapMs == 600
PollMs == 50

\* ------------------------------------------------------------------ helpers
Min(a, b) == IF a < b THEN a ELSE b
SatSub1(n) == IF n = 0 THEN 0 ELSE n - 1

Some(v) == [some |-> TRUE, val |-> v]
None(d) == [some |-> FALSE, val |-> d]

\* char::to_lowercase on the characters the model uses.
LowerChar(c) ==
  CASE c = "G" -> "g"
    [] c = "M" -> "m"
    [] c = "Y" -> "y"
    [] c = "R" -> "r"
    [] c = "W" -> "w"
    [] OTHER -> c

to_lowercase(s) == [i \in 1..Len(s) |-> LowerChar(s[i])]

\* A match at the start of the text only.
contains_at_start(text, f) ==
  /\ Len(f) <= Len(text)
  /\ \A j \in 1..Len(f) : text[j] = f[j]

\* str::contains
contains(text, f) ==
  \E i \in 0..(Len(text) - Len(f)) :
    \A j \in 1..Len(f) : text[i + j] = f[j]

\* str::starts_with
starts_with(c, buf) ==
  /\ Len(buf) <= Len(c)
  /\ \A j \in 1..Len(buf) : c[j] = buf[j]

\* The iterator filter of visible_repos / visible_worktrees_idx: the positions
\* (1-based, in order) of the search texts that contain the lowercased filter
\* f; an empty f keeps every position.
RECURSIVE filter_scan(_, _, _)
filter_scan(texts, f, i) ==
  IF i > Len(texts) THEN <<>>
  ELSE (IF f = <<>> \/ contains(to_lowercase(texts[i]), f) THEN <<i>> ELSE <<>>)
       \o filter_scan(texts, f, i + 1)

\* ------------------------------------------------------------ hotkey pools
hotkey_pool_repos ==
  << "a", "s", "d", "f", "h", "l", "w", "e", "r", "t", "y", "u", "i", "o",
     "p", "z", "x", "c", "v", "b", "n", "m" >>

hotkey_pool_worktrees ==
  << "a", "s", "d", "f", "h", "l", "w", "e", "r", "t", "y", "u", "i", "o",
     "p", "z", "x", "c", "v", "b", "m" >>

InPool(c, pool) == \E i \in 1..Len(pool) : pool[i] = c
is_repo_hotkey(c) == InPool(c, hotkey_pool_repos)
is_worktree_hotkey(c) == InPool(c, hotkey_pool_worktrees)

\* Two-letter codes whose first letter is taken with the remainder, like the
\* second, instead of the quotient.
assign_hotkeys_same_letter(n, pool) ==
  LET m == Len(pool) IN
  IF m = 0 THEN <<>>
  ELSE [k \in 1..n |->
          LET i == k - 1 IN
          IF i < m THEN <<pool[i + 1]>>
          ELSE LET j == i - m IN <<pool[(j % m) + 1], pool[(j % m) + 1]>>]

\* Two-letter codes that run through the pool column by column: the first
\* letter is taken with the remainder and the second with the quotient.
assign_hotkeys_column_major(n, pool) ==
  LET m == Len(pool) IN
  IF m = 0 THEN <<>>
  ELSE [k \in 1..n |->
          LET i == k - 1 IN
          IF i < m THEN <<pool[i + 1]>>
          ELSE LET j == i - m IN
               <<pool[(j % m) + 1], pool[((j \div m) % m) + 1]>>]

\* assign_hotkeys(n, pool): position i (0-based) gets pool[i] below the pool
\* size m, and pool[(j / m) % m] pool[j % m] with j = i - m from there on.
assign_hotkeys(n, pool) ==
  LET m == Len(pool) IN
  IF m = 0 THEN <<>>
  ELSE [k \in 1..n |->
          LET i == k - 1 IN
          IF i < m THEN <<pool[i + 1]>>
          ELSE LET j == i - m IN
               <<pool[((j \div m) % m) + 1], pool[(j % m) + 1]>>]

\* The HashMap code -> index built by inserting the codes in order: a later
\* position overwrites an earlier one with the same code.  0-based index, or
\* -1 when the code is absent.
code_map_get(codes, buf) ==
  LET hits == {i \in 1..Len(codes) : codes[i] = buf} IN
  IF hits = {} THEN -1
  ELSE (CHOOSE i \in hits : \A k \in hits : k <= i) - 1

has_prefix(buf, codes) == \E i \in 1..Len(codes) : starts_with(codes[i], buf)

\* ------------------------------------------------------------------- world
\* The repositories on disk are identified by the hash of their common git
\* directory.
Hashes == {"1", "2"}

NoPath == <<>>
MainPath(h) == <<"R", h>>
LinkedPath(h, i) == <<"W", h, ToString(i)>>
GonePath(h) == <<"Z", h>>
CommonDir(h) == <<"C", h>>
RepoName(h) == IF h = "1" THEN <<"a">> ELSE <<"g">>

MainEntry(h) == [path |-> MainPath(h), branch |-> Some(<<"M">>)]
LinkedBranch(i) ==
  IF i = 1 THEN Some(<<"G">>) ELSE IF i = 2 THEN Some(<<"a">>) ELSE None(<<>>)
LinkedEntry(h, i) == [path |-> LinkedPath(h, i), branch |-> LinkedBranch(i)]

NoRepo == [hash |-> "", name |-> <<>>, anchor |-> NoPath, git_common_dir |-> NoPath]

VARIABLES
  app,        \* "picker" (pick_worktree) or "go" (run_go)
  pc,         \* "entry", "poll" (the frame is computed: draw it and poll),
              \* "cleanup", "returned"
  world,      \* per repository: its worktrees as git lists them, and whether
              \* its common git directory is still a repository
  cfg,        \* the persisted registry: per hash, known or not, name, anchor
  current_repo, \* the repository detected from the working directory, if any
  repos,      \* the KnownRepo list read once at start
  state,      \* AppState
  term,       \* the terminal: raw mode, alternate screen
  result,     \* what the entry point returned
  removeCall, \* the call of the removal service made by the last step, if any
  fn_in,      \* a pure function under study and its arguments, if any
  fn_out      \* its value, once computed

\* The variables of the function studies; the navigator leaves them alone.
fnvars == <<fn_in, fn_out>>

vars == <<app, pc, world, cfg, current_repo, repos, state, term, result,
          removeCall, fn_in, fn_out>>

\* ------------------------------------------------------------- file system
PathsOf(w, h) == {w[h].wts[i].path : i \in 1..Len(w[h].wts)}

\* Path::exists
exists(w, p) == \E h \in Hashes : p \in PathsOf(w, h)

\* `git worktree list --porcelain` run in directory cwd, parsed by
\* parse_worktree_porcelain: the worktrees of the repository cwd belongs to.
git_list_at(w, cwd) ==
  IF \E h \in Hashes : w[h].common_ok /\ cwd \in PathsOf(w, h)
  THEN LET h == CHOOSE x \in Hashes : w[x].common_ok /\ cwd \in PathsOf(w, x)
       IN [ok |-> TRUE, entries |-> w[h].wts]
  ELSE [ok |-> FALSE, entries |-> <<>>]

\* `git --git-dir <common dir> worktree list --porcelain`
git_list_gitdir(w, dir) ==
  IF \E h \in Hashes : w[h].common_ok /\ dir = CommonDir(h)
  THEN LET h == CHOOSE x \in Hashes : w[x].common_ok /\ dir = CommonDir(x)
       IN [ok |-> TRUE, entries |-> w[h].wts]
  ELSE [ok |-> FALSE, entries |-> <<>>]

\* ---------------------------------------------------------------- registry
NameLess(a, b) == a = <<"a">> /\ b = <<"g">>

\* list_known_repos: one KnownRepo per readable config, sorted by name.
list_known_repos(c) ==
  LET K == {h \in Hashes : c[h].known}
      ord == CHOOSE f \in [1..Cardinality(K) -> K] :
               /\ \A i, j \in 1..Cardinality(K) : i # j => f[i] # f[j]
               /\ \A i, j \in 1..Cardinality(K) :
                    i < j => ~NameLess(c[f[j]].repo_name, c[f[i]].repo_name)
  IN [i \in 1..Cardinality(K) |->
        [hash |-> ord[i], name |-> c[ord[i]].repo_name,
         anchor |-> c[ord[i]].anchor_path,
         git_common_dir |-> c[ord[i]].git_common_dir]]

\* persist_repo_anchor: rewrites anchor_path when the config file of the hash
\* can be read and parsed; otherwise does nothing.
persist_repo_anchor(c, hash, anchor) ==
  IF hash \in Hashes /\ c[hash].known
  THEN [c EXCEPT ![hash].anchor_path = anchor]
  ELSE c

\* ----------------------------------------------------------------- listing
\* A fallback that lists through the common git directory and repairs
\* nothing: the stale anchor is returned and the registry left as it was.
load_worktrees_no_repair(c, w, repo) ==
  LET fast == git_list_at(w, repo.anchor)
      slow == git_list_gitdir(w, repo.git_common_dir)
  IN IF exists(w, repo.anchor) /\ fast.ok
     THEN [ok |-> TRUE, entries |-> fast.entries, anchor |-> repo.anchor, cfg |-> c]
     ELSE [ok |-> slow.ok, entries |-> slow.entries, anchor |-> repo.anchor,
           cfg |-> c]

\* picker.rs load_worktrees: the fast path through the stored anchor, then the
\* fallback through the common git directory, which repairs the stored anchor.
\* Yields the listing, the anchor to use, and the registry as it leaves it.
load_worktrees(c, w, repo) ==
  LET fast == git_list_at(w, repo.anchor)
      slow == git_list_gitdir(w, repo.git_common_dir)
  IN IF exists(w, repo.anchor) /\ fast.ok
     THEN [ok |-> TRUE, entries |-> fast.entries, anchor |-> repo.anchor, cfg |-> c]
     ELSE IF ~slow.ok
     THEN [ok |-> FALSE, entries |-> <<>>, anchor |-> repo.anchor, cfg |-> c]
     ELSE IF slow.entries # <<>>
     THEN [ok |-> TRUE, entries |-> slow.entries,
           anchor |-> slow.entries[1].path,
           cfg |-> persist_repo_anchor(c, repo.hash, slow.entries[1].path)]
     ELSE [ok |-> TRUE, entries |-> slow.entries, anchor |-> repo.anchor, cfg |-> c]

\* picker.rs lines 830-842: whether load_worktrees answers from the fast
\* path, the listing run in the anchor of the KnownRepo it is given.
fast_path(w, repo) == exists(w, repo.anchor) /\ git_list_at(w, repo.anchor).ok

\* go_tui.rs load_worktrees: git run in the stored anchor, nothing else.
go_load_worktrees(w, repo) == git_list_at(w, repo.anchor)

\* ---------------------------------------------------------------- services
\* The repository a path is a worktree of ("" when none).
OwnerOf(w, p) ==
  IF \E h \in Hashes : w[h].common_ok /\ p \in PathsOf(w, h)
  THEN CHOOSE h \in Hashes : w[h].common_ok /\ p \in PathsOf(w, h)
  ELSE ""

RemoveAt(s, i) == [k \in 1..(Len(s) - 1) |-> IF k < i THEN s[k] ELSE s[k + 1]]

\* The removal service (crate::remove_worktree, forced): refuses the main
\* worktree; otherwise git decides (git_ok).
remove_worktree(w, anchor, target, git_ok) ==
  LET h == OwnerOf(w, target) IN
  IF h = "" \/ OwnerOf(w, anchor) # h \/ target = w[h].wts[1].path \/ ~git_ok
  THEN [ok |-> FALSE, world |-> w]
  ELSE LET i == CHOOSE k \in 1..Len(w[h].wts) : w[h].wts[k].path = target
       IN [ok |-> TRUE, world |-> [w EXCEPT ![h].wts = RemoveAt(@, i)]]

\* The linked worktree a creation adds to repository h: the first unused one.
FreshLinked(w, h) ==
  LET free == {i \in 1..(MaxWorktrees - 1) : LinkedPath(h, i) \notin PathsOf(w, h)}
  IN LinkedEntry(h, CHOOSE i \in free : \A k \in free : i <= k)

\* The outcomes of a "new" prompt followed by the creation service:
\*   "empty"     the user entered a blank specification
\*   "err"       the prompt, the resolver or git failed; nothing was created
\*   "hook_err"  the worktree was created and a hook failed afterwards
\*   "ok"        the worktree was created
CreateOutcomes == {"empty", "err", "hook_err", "ok"}

\* The creation service run from directory anchor (picker:
\* crate::create_worktree_from_spec; go: create_new_worktree_interactive).
create_worktree(w, anchor, outcome) ==
  LET h == OwnerOf(w, anchor) IN
  IF outcome = "empty"
  THEN [ok |-> TRUE, created |-> None(NoPath), world |-> w]
  ELSE IF outcome = "err" \/ h = "" \/ Len(w[h].wts) >= MaxWorktrees
  THEN [ok |-> FALSE, created |-> None(NoPath), world |-> w]
  ELSE LET e == FreshLinked(w, h)
           w2 == [w EXCEPT ![h].wts = Append(@, e)]
       IN IF outcome = "hook_err"
          THEN [ok |-> FALSE, created |-> None(NoPath), world |-> w2]
          ELSE [ok |-> TRUE, created |-> Some(e.path), world |-> w2]

\* ---------------------------------------------------------------- terminal
TermOff == [raw |-> FALSE, alt |-> FALSE, pending_resume |-> FALSE]

\* suspend_tui, and lines 562-563 of go_tui.rs
suspend_tui(t) == [raw |-> FALSE, alt |-> FALSE, pending_resume |-> TRUE]

\* Where a resume fails: nowhere ("none") or in enable_raw_mode ("raw"). The
\* resume operators also take "alt" (EnterAlternateScreen failing), which the
\* actions do not draw.
ResumeFailures == {"none", "raw"}

\* picker.rs resume_tui: enable_raw_mode()?, EnterAlternateScreen?, clear.
resume_tui(t, fail) ==
  IF fail = "raw"
  THEN [ok |-> FALSE, term |-> [t EXCEPT !.pending_resume = FALSE]]
  ELSE IF fail = "alt"
  THEN [ok |-> FALSE, term |-> [t EXCEPT !.raw = TRUE, !.pending_resume = FALSE]]
  ELSE [ok |-> TRUE, term |-> [raw |-> TRUE, alt |-> TRUE, pending_resume |-> FALSE]]

\* go_tui.rs lines 567-568: EnterAlternateScreen .ok(), enable_raw_mode .ok().
go_resume(t, fail) ==
  [raw |-> fail # "raw", alt |-> fail # "alt", pending_resume |-> FALSE]

\* The epilogue of pick_with_terminal / run_go.
restore_terminal(t) == [t EXCEPT !.raw = FALSE, !.alt = FALSE]

\* -------------------------------------------------------------------- keys
Chars == {"q", "?", "/", "n", "y", "Y", "j", "k", "g", "G", "d", "a", "s"}
CtrlChars == {"d", "q"}

CharKey(ch) == [code |-> "Char", c |-> ch, ctrl |-> FALSE]
CtrlKey(ch) == [code |-> "Char", c |-> ch, ctrl |-> TRUE]
EscKey == [code |-> "Esc", c |-> "", ctrl |-> FALSE]
EnterKey == [code |-> "Enter", c |-> "", ctrl |-> FALSE]
BackspaceKey == [code |-> "Backspace", c |-> "", ctrl |-> FALSE]
TabKey == [code |-> "Tab", c |-> "", ctrl |-> FALSE]

Keys ==
  {CharKey(ch) : ch \in Chars} \cup {CtrlKey(ch) : ch \in CtrlChars}
    \cup {EscKey, EnterKey, BackspaceKey, TabKey}

IsChar(key, ch) == key.code = "Char" /\ key.c = ch

\* The characters the model types into a filter: an upper-case one that
\* keeps the second repository and the first linked worktree ("G"), and one
\* that keeps nothing ("q").
FilterChars == {"G", "q"}

\* --------------------------------------------------------------- AppState
RepoStatus == "j/k move, gg/G top/bottom, / filter, enter select, n new, ? help, q quit"
WtStatus == "j/k move, / filter, enter select, n new, ctrl+d delete, esc back, ? help, q quit"
GoRepoStatus == "j/k move, gg/G top/bottom, / filter, enter select, q quit"
GoWtStatus == "j/k move, / filter, enter select, esc back, n new"

\* The AppState built at the top of picker_loop / tui_loop. last_hotkey_at and
\* last_g_at hold the time elapsed since that instant, in ms, up to AgeCap.
InitState(a, rs, cur) ==
  LET hit == {i \in 1..Len(rs) : cur.some /\ rs[i].hash = cur.val} IN
  [screen |-> "Repo", mode |-> "Normal",
   status |-> IF a = "picker" THEN RepoStatus ELSE GoRepoStatus,
   pending_delete |-> None(NoPath),
   repo_filter |-> <<>>,
   repo_selected |-> IF hit = {} THEN 0
                     ELSE (CHOOSE i \in hit : \A k \in hit : i <= k) - 1,
   active_repo |-> None(NoRepo),
   wt_filter |-> <<>>, wt_selected |-> 0, wt_entries |-> <<>>,
   hotkey_buf |-> <<>>, last_hotkey_at |-> 0,
   pending_g |-> FALSE, last_g_at |-> 0]

\* AppState is a local of the loop: it is gone once the loop returns.
Dropped == InitState("", <<>>, None(""))

\* ------------------------------------------------------ visible projection
RepoText(r) == r.name \o <<" ">> \o r.anchor
WtText(e) == e.path \o <<" ">> \o (IF e.branch.some THEN e.branch.val ELSE <<>>)

\* visible_repos: the repositories kept by the filter, in order (the codes
\* and the code map are assign_hotkeys / code_map_get of its length).
visible_repos(rs, filter) ==
  LET idx == filter_scan([i \in 1..Len(rs) |-> RepoText(rs[i])],
                         to_lowercase(filter), 1)
  IN [k \in 1..Len(idx) |-> rs[idx[k]]]

\* visible_worktrees_idx: the positions (1-based here) of the kept entries.
visible_worktrees_idx(entries, filter) ==
  filter_scan([i \in 1..Len(entries) |-> WtText(entries[i])],
              to_lowercase(filter), 1)

VisRepos == visible_repos(repos, state.repo_filter)
RepoCodes == assign_hotkeys(Len(VisRepos), hotkey_pool_repos)
VisWtIdx == visible_worktrees_idx(state.wt_entries, state.wt_filter)

\* ------------------------------------------------------------ top of loop
\* A loop top at which only the double-tap flag expires.
expire_chords_g_only(st) ==
  IF st.pending_g /\ st.last_g_at > DoubleTapMs
  THEN [st EXCEPT !.pending_g = FALSE] ELSE st

\* Lines 204-211: the chord buffer and the double-tap flag expire.
expire_chords(st) ==
  LET s1 == IF st.hotkey_buf # <<>> /\ st.last_hotkey_at > HotkeyTimeoutMs
            THEN [st EXCEPT !.hotkey_buf = <<>>] ELSE st
  IN IF s1.pending_g /\ s1.last_g_at > DoubleTapMs
     THEN [s1 EXCEPT !.pending_g = FALSE] ELSE s1

\* A loop top that clamps the repository selection and forgets the worktree
\* selection.
clamp_selection_repo_only(st, rs) ==
  [st EXCEPT
     !.repo_selected = Min(@, SatSub1(Len(visible_repos(rs, st.repo_filter))))]

\* Lines 213-219: both selections are clamped to their visible lists.
clamp_selection(st, rs) ==
  [st EXCEPT
     !.repo_selected = Min(@, SatSub1(Len(visible_repos(rs, st.repo_filter)))),
     !.wt_selected =
        Min(@, SatSub1(Len(visible_worktrees_idx(st.wt_entries, st.wt_filter))))]

\* Time passing: dt ms more since both instants; an elapsed time is kept up
\* to one past its threshold.
elapsed(st, dt) ==
  [st EXCEPT !.last_hotkey_at = Min(@ + dt, HotkeyTimeoutMs + 1),
             !.last_g_at = Min(@ + dt, DoubleTapMs + 1)]

\* An instant whose chord is not pending is not read before push_hotkey or
\* the g arm overwrites it: the model keeps it at 0.
settle(st) ==
  [st EXCEPT !.last_hotkey_at = IF st.hotkey_buf = <<>> THEN 0 ELSE @,
             !.last_g_at = IF st.pending_g THEN @ ELSE 0]

\* The top of one iteration, lines 204-219, up to the draw.
loop_top(st, rs) == settle(clamp_selection(expire_chords(st), rs))

\* ------------------------------------------------------------ small helpers
clear_hotkey_buf(st) == [st EXCEPT !.hotkey_buf = <<>>]
reset_chords(st) == [st EXCEPT !.hotkey_buf = <<>>, !.pending_g = FALSE]

push_hotkey(st, c) ==
  [st EXCEPT !.hotkey_buf = (IF Len(@) >= 2 THEN <<>> ELSE @) \o <<c>>,
             !.last_hotkey_at = 0]

\* A resolution that matches codes of one character only.
resolve_chord_one_char(buf, sel, codes) ==
  LET hit == IF Len(buf) = 1 THEN code_map_get(codes, buf) ELSE -1 IN
  IF hit >= 0
  THEN [buf |-> buf, sel |-> hit]
  ELSE IF ~has_prefix(buf, codes) \/ Len(buf) >= 2
  THEN [buf |-> <<>>, sel |-> sel]
  ELSE [buf |-> buf, sel |-> sel]

\* A resolution that keeps a matched buffer of two characters.
resolve_chord_keeps_match(buf, sel, codes) ==
  LET hit == code_map_get(codes, buf) IN
  IF hit >= 0
  THEN [buf |-> buf, sel |-> hit]
  ELSE IF ~has_prefix(buf, codes) \/ Len(buf) >= 2
  THEN [buf |-> <<>>, sel |-> sel]
  ELSE [buf |-> buf, sel |-> sel]

\* The two-branch chord resolution (picker.rs 616-624 and 809-816, go_tui.rs
\* 597-604): an exact match selects; a buffer of length 2, or one that is no
\* prefix of a code, is cleared.  Yields the buffer and the selection.
resolve_chord(buf, sel, codes) ==
  LET hit == code_map_get(codes, buf) IN
  IF hit >= 0
  THEN [buf |-> IF Len(buf) >= 2 THEN <<>> ELSE buf, sel |-> hit]
  ELSE IF ~has_prefix(buf, codes) \/ Len(buf) >= 2
  THEN [buf |-> <<>>, sel |-> sel]
  ELSE [buf |-> buf, sel |-> sel]

\* A three-branch form whose match clears the buffer whatever its length.
resolve_chord3_clears_match(buf, sel, codes) ==
  LET hit == code_map_get(codes, buf) IN
  IF hit >= 0
  THEN [buf |-> <<>>, sel |-> hit]
  ELSE IF ~has_prefix(buf, codes)
  THEN [buf |-> <<>>, sel |-> sel]
  ELSE IF Len(buf) >= 2
  THEN [buf |-> <<>>, sel |-> sel]
  ELSE [buf |-> buf, sel |-> sel]

\* The three-branch form of go_tui.rs 489-499.
resolve_chord3(buf, sel, codes) ==
  LET hit == code_map_get(codes, buf) IN
  IF hit >= 0
  THEN [buf |-> IF Len(buf) >= 2 THEN <<>> ELSE buf, sel |-> hit]
  ELSE IF ~has_prefix(buf, codes)
  THEN [buf |-> <<>>, sel |-> sel]
  ELSE IF Len(buf) >= 2
  THEN [buf |-> <<>>, sel |-> sel]
  ELSE [buf |-> buf, sel |-> sel]

\* ----------------------------------------------------------- handler result
\* What a key handler leaves behind: the state, the registry, the disk, the
\* terminal, and how it returned: "continue" (Ok(None)), "none"
\* (Ok(Some(None))), "sel" (Ok(Some(Some(..)))) or "err".
NoSel == [repo_anchor |-> NoPath, worktree_path |-> NoPath]

Continue(st) ==
  [state |-> st, cfg |-> cfg, world |-> world, term |-> term,
   ret |-> "continue", sel |-> NoSel, msg |-> "", rm |-> None(NoPath)]

\* A handler result that never leaves the loop.
Return_continue(st, r, m) == Continue(st)

\* A handler result that is always "no selection".
Return_no_selection(st, r, m) == [Continue(st) EXCEPT !.ret = "none"]

Return(st, r, m) == [Continue(st) EXCEPT !.ret = r, !.msg = m]

\* ------------------------------------------------------------- filter mode
\* A filter mode whose Esc also empties the filter of the screen.
handle_filter_mode_esc_clears(st, key) ==
  CASE key.code = "Esc" ->
         [handled |-> TRUE,
          state |-> IF st.screen = "Repo"
                    THEN [st EXCEPT !.mode = "Normal", !.repo_filter = <<>>,
                                    !.status = "cancelled filter"]
                    ELSE [st EXCEPT !.mode = "Normal", !.wt_filter = <<>>,
                                    !.status = "cancelled filter"]]
    [] key.code = "Enter" ->
         [handled |-> TRUE,
          state |-> [st EXCEPT !.mode = "Normal", !.status = "filter applied"]]
    [] key.code = "Backspace" ->
         [handled |-> TRUE,
          state |-> IF st.screen = "Repo"
                    THEN [st EXCEPT !.repo_filter = SubSeq(@, 1, Len(@) - 1)]
                    ELSE [st EXCEPT !.wt_filter = SubSeq(@, 1, Len(@) - 1)]]
    [] key.code = "Char" ->
         IF key.ctrl THEN [handled |-> FALSE, state |-> st]
         ELSE [handled |-> TRUE,
               state |-> IF st.screen = "Repo"
                         THEN [st EXCEPT !.repo_filter = Append(@, key.c)]
                         ELSE [st EXCEPT !.wt_filter = Append(@, key.c)]]
    [] OTHER -> [handled |-> FALSE, state |-> st]

\* A filter mode that leaves the characters bound in Normal mode to the
\* screen's handler.
handle_filter_mode_text_only(st, key) ==
  CASE key.code = "Esc" ->
         [handled |-> TRUE,
          state |-> [st EXCEPT !.mode = "Normal", !.status = "cancelled filter"]]
    [] key.code = "Enter" ->
         [handled |-> TRUE,
          state |-> [st EXCEPT !.mode = "Normal", !.status = "filter applied"]]
    [] key.code = "Backspace" ->
         [handled |-> TRUE,
          state |-> IF st.screen = "Repo"
                    THEN [st EXCEPT !.repo_filter = SubSeq(@, 1, Len(@) - 1)]
                    ELSE [st EXCEPT !.wt_filter = SubSeq(@, 1, Len(@) - 1)]]
    [] key.code = "Char" ->
         IF key.ctrl \/ key.c \in {"q", "j", "k", "g", "G", "n", "?", "/"}
         THEN [handled |-> FALSE, state |-> st]
         ELSE [handled |-> TRUE,
               state |-> IF st.screen = "Repo"
                         THEN [st EXCEPT !.repo_filter = Append(@, key.c)]
                         ELSE [st EXCEPT !.wt_filter = Append(@, key.c)]]
    [] OTHER -> [handled |-> FALSE, state |-> st]

\* handle_filter_mode: whether the key was consumed, and the state after it.
handle_filter_mode(st, key) ==
  CASE key.code = "Esc" ->
         [handled |-> TRUE,
          state |-> [st EXCEPT !.mode = "Normal", !.status = "cancelled filter"]]
    [] key.code = "Enter" ->
         [handled |-> TRUE,
          state |-> [st EXCEPT !.mode = "Normal", !.status = "filter applied"]]
    [] key.code = "Backspace" ->
         [handled |-> TRUE,
          state |-> IF st.screen = "Repo"
                    THEN [st EXCEPT !.repo_filter = SubSeq(@, 1, Len(@) - 1)]
                    ELSE [st EXCEPT !.wt_filter = SubSeq(@, 1, Len(@) - 1)]]
    [] key.code = "Char" ->
         IF key.ctrl THEN [handled |-> FALSE, state |-> st]
         ELSE [handled |-> TRUE,
               state |-> IF st.screen = "Repo"
                         THEN [st EXCEPT !.repo_filter = Append(@, key.c)]
                         ELSE [st EXCEPT !.wt_filter = Append(@, key.c)]]
    [] OTHER -> [handled |-> FALSE, state |-> st]

\* Movement arms whose j does not stop at the last visible item.
move_selection_past_end(st, key, n, sel) ==
  CASE IsChar(key, "j") -> [st |-> reset_chords(st), sel |-> sel + 1]
    [] IsChar(key, "k") -> [st |-> reset_chords(st), sel |-> SatSub1(sel)]
    [] IsChar(key, "G") -> [st |-> reset_chords(st), sel |-> SatSub1(n)]
    [] IsChar(key, "g") ->
         IF st.pending_g
         THEN [st |-> clear_hotkey_buf([st EXCEPT !.pending_g = FALSE]), sel |-> 0]
         ELSE [st |-> clear_hotkey_buf([st EXCEPT !.pending_g = TRUE, !.last_g_at = 0]),
               sel |-> sel]

\* ------------------------------------------------- movement, shared arms
\* The j / k / G / g arms, the same on both screens of both navigators; n is
\* the length of the screen's visible list, sel its selection.
move_selection(st, key, n, sel) ==
  CASE IsChar(key, "j") -> [st |-> reset_chords(st), sel |-> Min(sel + 1, SatSub1(n))]
    [] IsChar(key, "k") -> [st |-> reset_chords(st), sel |-> SatSub1(sel)]
    [] IsChar(key, "G") -> [st |-> reset_chords(st), sel |-> SatSub1(n)]
    [] IsChar(key, "g") ->
         IF st.pending_g
         THEN [st |-> clear_hotkey_buf([st EXCEPT !.pending_g = FALSE]), sel |-> 0]
         ELSE [st |-> clear_hotkey_buf([st EXCEPT !.pending_g = TRUE, !.last_g_at = 0]),
               sel |-> sel]

IsMoveKey(key) == key.code = "Char" /\ key.c \in {"j", "k", "G", "g"}

\* What the environment decides during a handler: the outcome of a "new"
\* prompt and creation, where a resume fails, whether git removes.
Inputs == [create : CreateOutcomes, resume : ResumeFailures, git_ok : BOOLEAN]

\* The characters matched by an arm that precedes the catch-all Char(c) arm
\* of each handler: a match takes the first arm that fits.
PickerRepoArms == {"q", "?", "/", "n", "j", "k", "G", "g"}
PickerWtArms == {"q", "?", "n", "/", "j", "k", "G", "g"}
GoRepoArms == {"q", "/", "j", "k", "G", "g"}
GoWtArms == {"q", "/", "j", "k", "G", "g", "n"}

\* ------------------------------------------------------- picker: "new" arms
\* A "new" arm that forgets the terminal when the creation service fails: the
\* failure leaves the handler before resume_tui is reached.
prompt_new_worktree_no_resume(w, t, anchor, inp) ==
  LET cr == create_worktree(w, anchor, inp.create)
  IN [cr |-> cr,
      rs |-> IF cr.ok THEN resume_tui(suspend_tui(t), inp.resume)
             ELSE [ok |-> TRUE, term |-> suspend_tui(t)]]

\* picker.rs lines 525-548 and 716-742: suspend the terminal, run the prompt
\* and the creation service inside a closure that keeps their error, resume.
prompt_new_worktree(w, t, anchor, inp) ==
  [cr |-> create_worktree(w, anchor, inp.create),
   rs |-> resume_tui(suspend_tui(t), inp.resume)]

\* ------------------------------------------------------ picker: repo screen
\* picker.rs handle_repo_key
handle_repo_key(st, key, vis_repos, repo_codes, inp) ==
  CASE IsChar(key, "q") \/ key.code = "Esc" -> Return(st, "none", "")
    [] IsChar(key, "?") ->
         Continue([st EXCEPT !.mode = "Help", !.status = "press ?/esc/q to close help"])
    [] IsChar(key, "/") ->
         Continue([st EXCEPT !.mode = "Filter", !.repo_filter = <<>>,
                             !.status = "filter: type, enter to apply"])
    [] IsChar(key, "n") ->
         IF st.repo_selected >= Len(vis_repos)
         THEN Return(st, "err", "no repo selected")
         ELSE
           LET repo == vis_repos[st.repo_selected + 1]
               lw == load_worktrees(cfg, world, repo)
               p == prompt_new_worktree(world, term, lw.anchor, inp)
               cr == p.cr
               rs == p.rs
           IN IF ~lw.ok
              THEN Continue([st EXCEPT !.status = "failed to load worktrees"])
              ELSE IF ~rs.ok
              THEN [Return(st, "err", "resume failed") EXCEPT
                      !.cfg = lw.cfg, !.world = cr.world, !.term = rs.term]
              ELSE IF ~cr.ok
              THEN [Return(st, "err", "new failed") EXCEPT
                      !.cfg = lw.cfg, !.world = cr.world, !.term = rs.term]
              ELSE IF cr.created.some
              THEN [Return(st, "sel", "") EXCEPT
                      !.cfg = persist_repo_anchor(lw.cfg, repo.hash, cr.created.val),
                      !.world = cr.world, !.term = rs.term,
                      !.sel = [repo_anchor |-> lw.anchor,
                               worktree_path |-> cr.created.val]]
              ELSE [Continue([st EXCEPT !.status = "new cancelled"]) EXCEPT
                      !.cfg = lw.cfg, !.term = rs.term]
    [] IsMoveKey(key) ->
         LET m == move_selection(st, key, Len(vis_repos), st.repo_selected)
         IN Continue([m.st EXCEPT !.repo_selected = m.sel])
    [] key.code = "Enter" ->
         IF st.repo_selected >= Len(vis_repos)
         THEN Return(st, "err", "no repo selected")
         ELSE
           LET repo == vis_repos[st.repo_selected + 1]
               s1 == [st EXCEPT !.screen = "Worktree", !.mode = "Normal",
                                !.wt_filter = <<>>, !.wt_selected = 0,
                                !.hotkey_buf = <<>>, !.pending_g = FALSE,
                                !.status = WtStatus]
               lw == load_worktrees(cfg, world, repo)
           IN IF lw.ok
              THEN [Continue([s1 EXCEPT
                                !.active_repo = Some([repo EXCEPT !.anchor = lw.anchor]),
                                !.wt_entries = lw.entries])
                      EXCEPT !.cfg = lw.cfg]
              ELSE Continue([s1 EXCEPT !.status = "failed to load worktrees"])
    [] key.code = "Char" /\ key.c \notin PickerRepoArms /\ is_repo_hotkey(key.c) ->
         LET s1 == push_hotkey(st, key.c)
             r == resolve_chord(s1.hotkey_buf, s1.repo_selected, repo_codes)
         IN Continue([s1 EXCEPT !.hotkey_buf = r.buf, !.repo_selected = r.sel])
    [] OTHER -> Continue(st)

\* -------------------------------------------------- picker: worktree screen
\* picker.rs lines 650-673: y or Y in ConfirmDelete mode. The target is taken
\* out of pending_delete, the removal service is called, the listing reloaded.
confirm_delete_yes(st, repo, inp) ==
  IF ~st.pending_delete.some
  THEN Continue([st EXCEPT !.mode = "Normal", !.status = "no delete target"])
  ELSE
    LET target == st.pending_delete.val
        s1 == [st EXCEPT !.pending_delete = None(NoPath)]
        rm == remove_worktree(world, repo.anchor, target, inp.git_ok)
        s2 == [s1 EXCEPT !.mode = "Normal", !.status = "worktree removed"]
        lw == load_worktrees(cfg, rm.world, repo)
    IN IF ~rm.ok
       THEN [Return(s1, "err", "remove failed") EXCEPT !.rm = Some(target)]
       ELSE IF lw.ok
       THEN [Continue([s2 EXCEPT
                         !.active_repo = Some([repo EXCEPT !.anchor = lw.anchor]),
                         !.wt_entries = lw.entries])
               EXCEPT !.cfg = lw.cfg, !.world = rm.world, !.rm = Some(target)]
       ELSE [Continue([s2 EXCEPT !.status = "failed to load worktrees"])
               EXCEPT !.world = rm.world, !.rm = Some(target)]

\* A ConfirmDelete block in which every key but n, N and Esc confirms.
confirm_delete_key_any(st, key, repo, inp) ==
  CASE IsChar(key, "n") \/ IsChar(key, "N") \/ key.code = "Esc" ->
         Continue([st EXCEPT !.pending_delete = None(NoPath), !.mode = "Normal",
                             !.status = "delete cancelled"])
    [] OTHER -> confirm_delete_yes(st, repo, inp)

\* A ConfirmDelete block whose Esc goes back to the repository list, as Esc
\* does in Normal mode, and leaves the mode alone.
confirm_delete_key_back(st, key, repo, inp) ==
  CASE IsChar(key, "y") \/ IsChar(key, "Y") -> confirm_delete_yes(st, repo, inp)
    [] key.code = "Esc" ->
         Continue([st EXCEPT !.screen = "Repo", !.pending_delete = None(NoPath),
                             !.status = RepoStatus])
    [] IsChar(key, "n") \/ IsChar(key, "N") ->
         Continue([st EXCEPT !.pending_delete = None(NoPath), !.mode = "Normal",
                             !.status = "delete cancelled"])
    [] OTHER -> Continue(st)

\* A ConfirmDelete block whose cancel keys leave the target recorded.
confirm_delete_key_keeps_target(st, key, repo, inp) ==
  CASE IsChar(key, "y") \/ IsChar(key, "Y") -> confirm_delete_yes(st, repo, inp)
    [] IsChar(key, "n") \/ IsChar(key, "N") \/ key.code = "Esc" ->
         Continue([st EXCEPT !.mode = "Normal", !.status = "delete cancelled"])
    [] OTHER -> Continue(st)

\* A ConfirmDelete block in which q quits, as it does in Normal mode.
confirm_delete_key_quit(st, key, repo, inp) ==
  CASE IsChar(key, "y") \/ IsChar(key, "Y") -> confirm_delete_yes(st, repo, inp)
    [] IsChar(key, "n") \/ IsChar(key, "N") \/ key.code = "Esc" ->
         Continue([st EXCEPT !.pending_delete = None(NoPath), !.mode = "Normal",
                             !.status = "delete cancelled"])
    [] IsChar(key, "q") -> Return(st, "none", "")
    [] OTHER -> Continue(st)

\* picker.rs handle_worktree_key, lines 647-682: ConfirmDelete mode.
confirm_delete_key(st, key, repo, inp) ==
  CASE IsChar(key, "y") \/ IsChar(key, "Y") -> confirm_delete_yes(st, repo, inp)
    [] IsChar(key, "n") \/ IsChar(key, "N") \/ key.code = "Esc" ->
         Continue([st EXCEPT !.pending_delete = None(NoPath), !.mode = "Normal",
                             !.status = "delete cancelled"])
    [] OTHER -> Continue(st)

\* An Enter that indexes the unfiltered entries with the selection.
selected_worktree_unfiltered(st, vis_wt_idx) == st.wt_entries[st.wt_selected + 1]

\* picker.rs lines 787-791 (go_tui.rs 552-556): the entry behind the selected
\* row, entries[visible[selected]].
selected_worktree(st, vis_wt_idx) == st.wt_entries[vis_wt_idx[st.wt_selected + 1]]

\* picker.rs handle_worktree_key
handle_worktree_key(st, key, vis_wt_idx, inp) ==
  IF ~st.active_repo.some
  THEN Continue([st EXCEPT !.screen = "Repo", !.mode = "Normal",
                           !.status = "no active repo"])
  ELSE
  LET repo == st.active_repo.val IN
  IF st.mode = "ConfirmDelete" THEN confirm_delete_key(st, key, repo, inp)
  ELSE IF key.ctrl /\ IsChar(key, "d")
  THEN IF st.wt_selected >= Len(vis_wt_idx)
       THEN Return(st, "err", "no worktree selected")
       ELSE Continue([st EXCEPT
              !.pending_delete = Some(st.wt_entries[vis_wt_idx[st.wt_selected + 1]].path),
              !.mode = "ConfirmDelete", !.status = "delete ? (y/n)"])
  ELSE
  CASE IsChar(key, "q") -> Return(st, "none", "")
    [] IsChar(key, "?") ->
         Continue([st EXCEPT !.mode = "Help", !.status = "press ?/esc/q to close help"])
    [] key.code = "Esc" ->
         Continue([st EXCEPT !.screen = "Repo", !.mode = "Normal",
                             !.hotkey_buf = <<>>, !.pending_g = FALSE,
                             !.status = RepoStatus])
    [] IsChar(key, "n") ->
         LET p == prompt_new_worktree(world, term, repo.anchor, inp)
             cr == p.cr
             rs == p.rs
         IN IF ~rs.ok
            THEN [Return(st, "err", "resume failed") EXCEPT
                    !.world = cr.world, !.term = rs.term]
            ELSE IF ~cr.ok
            THEN [Return(st, "err", "new failed") EXCEPT
                    !.world = cr.world, !.term = rs.term]
            ELSE IF cr.created.some
            THEN [Return(st, "sel", "") EXCEPT
                    !.world = cr.world, !.term = rs.term,
                    !.sel = [repo_anchor |-> repo.anchor,
                             worktree_path |-> cr.created.val]]
            ELSE [Continue([st EXCEPT !.status = "new cancelled"]) EXCEPT
                    !.term = rs.term]
    [] IsChar(key, "/") ->
         Continue([st EXCEPT !.mode = "Filter", !.wt_filter = <<>>,
                             !.status = "filter: type, enter to apply"])
    [] IsMoveKey(key) ->
         LET m == move_selection(st, key, Len(vis_wt_idx), st.wt_selected)
         IN Continue([m.st EXCEPT !.wt_selected = m.sel])
    [] key.code = "Enter" ->
         IF st.wt_selected >= Len(vis_wt_idx)
         THEN Return(st, "err", "no worktree selected")
         ELSE LET wt_path == selected_worktree(st, vis_wt_idx).path
              IN [Return(st, "sel", "") EXCEPT
                    !.cfg = persist_repo_anchor(cfg, repo.hash, wt_path),
                    !.sel = [repo_anchor |-> repo.anchor, worktree_path |-> wt_path]]
    [] key.code = "Char" /\ key.c \notin PickerWtArms /\ is_worktree_hotkey(key.c) ->
         LET s1 == push_hotkey(st, key.c)
             r == resolve_chord(s1.hotkey_buf, s1.wt_selected,
                                assign_hotkeys(Len(vis_wt_idx), hotkey_pool_worktrees))
         IN Continue([s1 EXCEPT !.hotkey_buf = r.buf, !.wt_selected = r.sel])
    [] OTHER -> Continue(st)

\* ---------------------------------------------------------- go: repo screen
\* The position (0-based) of the first entry with the given path, -1 if none.
position(entries, path) ==
  LET hits == {i \in 1..Len(entries) : entries[i].path = path} IN
  IF hits = {} THEN -1 ELSE (CHOOSE i \in hits : \A k \in hits : i <= k) - 1

\* go_tui.rs handle_repo_key
go_handle_repo_key(st, key, vis_repos, repo_codes) ==
  CASE IsChar(key, "q") \/ key.code = "Esc" -> Return(st, "none", "")
    [] IsChar(key, "/") ->
         Continue([st EXCEPT !.mode = "Filter", !.repo_filter = <<>>,
                             !.status = "filter: type, enter to apply"])
    [] IsMoveKey(key) ->
         LET m == move_selection(st, key, Len(vis_repos), st.repo_selected)
         IN Continue([m.st EXCEPT !.repo_selected = m.sel])
    [] key.code = "Enter" ->
         IF st.repo_selected >= Len(vis_repos)
         THEN Return(st, "err", "no repo selected")
         ELSE
           LET repo == vis_repos[st.repo_selected + 1]
               s1 == [st EXCEPT !.active_repo = Some(repo),
                                !.screen = "Worktree", !.mode = "Normal",
                                !.wt_filter = <<>>, !.wt_selected = 0,
                                !.hotkey_buf = <<>>, !.pending_g = FALSE,
                                !.status = GoWtStatus]
               lw == go_load_worktrees(world, repo)
           IN IF ~lw.ok
              THEN Return(s1, "err", "git worktree list failed")
              ELSE [Continue([s1 EXCEPT !.wt_entries = lw.entries]) EXCEPT
                      !.cfg = persist_repo_anchor(cfg, OwnerOf(world, repo.anchor),
                                                  repo.anchor)]
    [] key.code = "Char" /\ key.c \notin GoRepoArms /\ is_repo_hotkey(key.c) ->
         LET s1 == push_hotkey(st, key.c)
             r == resolve_chord3(s1.hotkey_buf, s1.repo_selected, repo_codes)
         IN Continue([s1 EXCEPT !.hotkey_buf = r.buf, !.repo_selected = r.sel])
    [] OTHER -> Continue(st)

\* ------------------------------------------------------ go: worktree screen
\* go_tui.rs handle_worktree_key
go_handle_worktree_key(st, key, vis_wt_idx, inp) ==
  CASE IsChar(key, "q") -> Return(st, "none", "")
    [] key.code = "Esc" ->
         Continue([st EXCEPT !.screen = "Repo", !.mode = "Normal",
                             !.hotkey_buf = <<>>, !.pending_g = FALSE,
                             !.status = GoRepoStatus])
    [] IsChar(key, "/") ->
         Continue([st EXCEPT !.mode = "Filter", !.wt_filter = <<>>,
                             !.status = "filter: type, enter to apply"])
    [] IsMoveKey(key) ->
         LET m == move_selection(st, key, Len(vis_wt_idx), st.wt_selected)
         IN Continue([m.st EXCEPT !.wt_selected = m.sel])
    [] key.code = "Enter" ->
         IF st.wt_selected >= Len(vis_wt_idx)
         THEN Return(st, "err", "no worktree selected")
         ELSE [Return(st, "sel", "") EXCEPT
                 !.sel = [repo_anchor |-> NoPath,
                          worktree_path |-> selected_worktree(st, vis_wt_idx).path]]
    [] IsChar(key, "n") ->
         IF ~st.active_repo.some THEN Return(st, "err", "no active repo")
         ELSE
           LET repo == st.active_repo.val
               cr == create_worktree(world, repo.anchor, inp.create)
               t2 == go_resume(suspend_tui(term), inp.resume)
               lw == go_load_worktrees(cr.world, repo)
               idx == position(lw.entries, cr.created.val)
           IN IF cr.ok /\ cr.created.some
              THEN IF ~lw.ok
                   THEN [Return(st, "err", "git worktree list failed") EXCEPT
                           !.world = cr.world, !.term = t2]
                   ELSE [Continue([st EXCEPT
                                     !.wt_entries = lw.entries,
                                     !.wt_selected = IF idx >= 0 THEN idx ELSE @,
                                     !.status = "worktree created; enter to select"])
                           EXCEPT !.world = cr.world, !.term = t2]
              ELSE IF ~cr.ok
              THEN [Continue([st EXCEPT !.status = "new worktree failed"]) EXCEPT
                      !.world = cr.world, !.term = t2]
              ELSE [Continue(st) EXCEPT !.term = t2]
    [] key.code = "Char" /\ key.c \notin GoWtArms /\ is_worktree_hotkey(key.c) ->
         LET s1 == push_hotkey(st, key.c)
             r == resolve_chord(s1.hotkey_buf, s1.wt_selected,
                                assign_hotkeys(Len(vis_wt_idx), hotkey_pool_worktrees))
         IN Continue([s1 EXCEPT !.hotkey_buf = r.buf, !.wt_selected = r.sel])
    [] OTHER -> Continue(st)

\* ------------------------------------------------------------------ start
Running == [kind |-> "running", sel |-> NoSel, msg |-> ""]

Unknown == [known |-> FALSE, repo_name |-> <<>>, anchor_path |-> NoPath,
            git_common_dir |-> NoPath]
Config(h, anchor) == [known |-> TRUE, repo_name |-> RepoName(h),
                      anchor_path |-> anchor, git_common_dir |-> CommonDir(h)]

Alive(h, n) == [wts |-> <<MainEntry(h)>> \o [i \in 1..n |-> LinkedEntry(h, i)],
                common_ok |-> TRUE]
Dead == [wts |-> <<>>, common_ok |-> FALSE]

\* The disks and registries a run starts from.  Repository 1 has a main and
\* a linked worktree.  Either its stored anchor is the linked worktree and
\* repository 2 is gone from disk, or its stored anchor no longer exists and
\* repository 2 is there with its main worktree as anchor; or the registry
\* is empty.  The working directory is outside any repository or inside
\* repository 2.
Scenarios ==
  { [known |-> {"1", "2"}, a1 |-> LinkedPath("1", 1), a2 |-> GonePath("2"), w2 |-> Dead],
    [known |-> {"1", "2"}, a1 |-> GonePath("1"), a2 |-> MainPath("2"),
     w2 |-> Alive("2", 0)],
    [known |-> {}, a1 |-> NoPath, a2 |-> NoPath, w2 |-> Alive("2", 0)] }

\* No function is under study.
NoCall == [fn |-> "none"]

Init ==
  /\ app \in {"picker", "go"}
  /\ pc = "entry"
  /\ \E sc \in Scenarios :
       /\ world = [h \in Hashes |-> IF h = "1" THEN Alive(h, 1) ELSE sc.w2]
       /\ cfg = [h \in Hashes |->
                   IF h \notin sc.known THEN Unknown
                   ELSE Config(h, IF h = "1" THEN sc.a1 ELSE sc.a2)]
  /\ current_repo \in {None(""), Some("2")}
  /\ current_repo.some => world["2"].common_ok
  /\ repos = <<>>
  /\ state = Dropped
  /\ term = TermOff
  /\ result = Running
  /\ removeCall = None(NoPath)
  /\ fn_in = NoCall
  /\ fn_out = None(<<>>)

\* Where the prologue fails: nowhere, enable_raw_mode, EnterAlternateScreen,
\* Terminal::new.
StartFailures == {"none", "raw", "alt", "term"}

\* pick_worktree (lines 76-126) and run_go (lines 67-97) up to the loop: read
\* the registry, register the current repository, give up on an empty
\* registry or (picker) without a terminal, then take over the terminal.
Start(tty, fail) ==
  /\ pc = "entry"
  /\ LET stub == current_repo.some /\ ~cfg[current_repo.val].known
         c2 == IF stub
               THEN [cfg EXCEPT ![current_repo.val] =
                       Config(current_repo.val, MainPath(current_repo.val))]
               ELSE cfg
         rs == list_known_repos(c2)
         end(kind, m, t) ==
           /\ pc' = "returned"
           /\ result' = [kind |-> kind, sel |-> NoSel, msg |-> m]
           /\ term' = t
           /\ state' = state
     IN /\ cfg' = c2
        /\ repos' = rs
        /\ IF rs = <<>> THEN end("none", "", term)
           ELSE IF app = "picker" /\ ~tty
           THEN end("err", "no TTY available for interactive picker", term)
           ELSE IF fail = "raw" THEN end("err", "enable_raw_mode", term)
           ELSE IF fail = "alt"
           THEN end("err", "EnterAlternateScreen", [term EXCEPT !.raw = TRUE])
           ELSE IF fail = "term"
           THEN end("err", "Terminal::new", [term EXCEPT !.raw = TRUE, !.alt = TRUE])
           ELSE /\ pc' = "poll"
                /\ result' = result
                /\ term' = [term EXCEPT !.raw = TRUE, !.alt = TRUE]
                /\ state' = loop_top(InitState(app, rs, current_repo), rs)
  /\ UNCHANGED <<app, world, current_repo, removeCall, fnvars>>

\* ------------------------------------------------------------------- loop
Fail(m) ==
  /\ pc' = "cleanup"
  /\ result' = [kind |-> "err", sel |-> NoSel, msg |-> m]
  /\ state' = Dropped

\* The draw of the frame computed at the top of the iteration fails (line
\* 221-339).
DrawFail ==
  /\ pc = "poll"
  /\ Fail("draw")
  /\ removeCall' = None(NoPath)
  /\ UNCHANGED <<app, world, cfg, current_repo, repos, term, fnvars>>

\* Time steps of the model, in ms.
TimeSteps == {DoubleTapMs, HotkeyTimeoutMs + 1}

\* event::poll finds no key press for dt ms (lines 341-346), while a chord
\* is pending; the next iteration starts.
PollIdle(dt) ==
  /\ pc = "poll"
  /\ state.hotkey_buf # <<>> \/ state.pending_g
  /\ state' = loop_top(elapsed(state, dt), repos)
  /\ removeCall' = None(NoPath)
  /\ UNCHANGED <<app, pc, world, cfg, current_repo, repos, term, result, fnvars>>

\* event::poll waits up to PollMs for the key it then reports (line 341):
\* this time passes after the expiry tests of the loop top and before the key
\* is handled. The handlers read no clock, so only a wait that carries a
\* pending chord past its threshold is a step of its own, and an instant it
\* does not carry past its threshold is left as it stood.
PollWait ==
  LET g_late == /\ state.pending_g
                /\ state.last_g_at <= DoubleTapMs
                /\ state.last_g_at + PollMs > DoubleTapMs
      buf_late == /\ state.hotkey_buf # <<>>
                  /\ state.last_hotkey_at <= HotkeyTimeoutMs
                  /\ state.last_hotkey_at + PollMs > HotkeyTimeoutMs
  IN /\ pc = "poll"
     /\ g_late \/ buf_late
     /\ state' = [state EXCEPT
                    !.last_g_at = IF g_late THEN DoubleTapMs + 1 ELSE @,
                    !.last_hotkey_at =
                       IF buf_late THEN HotkeyTimeoutMs + 1 ELSE @]
     /\ removeCall' = None(NoPath)
     /\ UNCHANGED <<app, pc, world, cfg, current_repo, repos, term, result,
                    fnvars>>

\* event::poll or event::read fails.
PollFail ==
  /\ pc = "poll"
  /\ Fail("poll")
  /\ removeCall' = None(NoPath)
  /\ UNCHANGED <<app, world, cfg, current_repo, repos, term, fnvars>>

\* What the loop does with a handler's result: return it, or start the next
\* iteration.
Finish(o) ==
  /\ state' = IF o.ret = "continue" THEN loop_top(o.state, repos) ELSE Dropped
  /\ cfg' = o.cfg
  /\ world' = o.world
  /\ term' = o.term
  /\ removeCall' = o.rm
  /\ IF o.ret = "continue" THEN pc' = "poll" /\ result' = result
     ELSE pc' = "cleanup" /\ result' = [kind |-> o.ret, sel |-> o.sel, msg |-> o.msg]
  /\ UNCHANGED <<app, current_repo, repos, fnvars>>

\* picker.rs lines 348-362: any key in Help mode.
help_key(st, key) ==
  IF IsChar(key, "?") \/ key.code = "Esc" \/ IsChar(key, "q")
  THEN [st EXCEPT !.mode = "Normal",
                  !.status = IF st.screen = "Repo" THEN RepoStatus ELSE WtStatus]
  ELSE st

KeyHelp(key) ==
  /\ pc = "poll"
  /\ state.mode = "Help"
  /\ Finish(Continue(help_key(state, key)))

\* A key consumed by handle_filter_mode (picker.rs 364-366, go_tui.rs 309-311).
KeyFilter(key) ==
  /\ pc = "poll"
  /\ state.mode = "Filter"
  /\ handle_filter_mode(state, key).handled
  /\ (key.code = "Char" => key.c \in FilterChars)
  /\ Len(handle_filter_mode(state, key).state.repo_filter) <= MaxFilterLen
  /\ Len(handle_filter_mode(state, key).state.wt_filter) <= MaxFilterLen
  /\ Finish(Continue(handle_filter_mode(state, key).state))

\* The key reaches the handler of the current screen.
ToScreen(key) ==
  /\ pc = "poll"
  /\ state.mode # "Help"
  /\ ~(state.mode = "Filter" /\ handle_filter_mode(state, key).handled)

NoInput == [create |-> "empty", resume |-> "none", git_ok |-> TRUE]

\* The environment has a say only in the handlers that call out: the "new"
\* arms and the confirmed removal.
InputsFor(key) ==
  IF IsChar(key, "n")
  THEN {i \in Inputs : i.git_ok}
  ELSE IF IsChar(key, "y") \/ IsChar(key, "Y")
  THEN {i \in Inputs : i.create = "empty" /\ i.resume = "none"}
  ELSE {NoInput}

KeyRepo(key, inp) ==
  /\ ToScreen(key)
  /\ state.screen = "Repo"
  /\ Finish(IF app = "picker"
            THEN handle_repo_key(state, key, VisRepos, RepoCodes, inp)
            ELSE go_handle_repo_key(state, key, VisRepos, RepoCodes))

KeyWorktree(key, inp) ==
  /\ ToScreen(key)
  /\ state.screen = "Worktree"
  /\ Finish(IF app = "picker"
            THEN handle_worktree_key(state, key, VisWtIdx, inp)
            ELSE go_handle_worktree_key(state, key, VisWtIdx, inp))

\* The epilogue of pick_with_terminal (130-134) and run_go (101-105).
Cleanup ==
  /\ pc = "cleanup"
  /\ term' = restore_terminal(term)
  /\ pc' = "returned"
  /\ removeCall' = None(NoPath)
  /\ UNCHANGED <<app, world, cfg, current_repo, repos, state, result, fnvars>>

Next ==
  \/ \E tty \in BOOLEAN, fail \in StartFailures : Start(tty, fail)
  \/ DrawFail
  \/ \E dt \in TimeSteps : PollIdle(dt)
  \/ PollWait
  \/ PollFail
  \/ \E key \in Keys : KeyHelp(key)
  \/ \E key \in Keys : KeyFilter(key)
  \/ \E key \in Keys : \E inp \in InputsFor(key) : KeyRepo(key, inp)
  \/ \E key \in Keys : \E inp \in InputsFor(key) : KeyWorktree(key, inp)
  \/ Cleanup

Spec == Init /\ [][Next]_vars

\* ======================================================= function studies
\* The navigator's variables, and the navigator not started: the studies of
\* pure functions leave it so.
navvars ==
  <<app, pc, world, cfg, current_repo, repos, state, term, result, removeCall>>

NavOff ==
  /\ app = "none"
  /\ pc = "off"
  /\ world = [h \in Hashes |-> Dead]
  /\ cfg = [h \in Hashes |-> Unknown]
  /\ current_repo = None("")
  /\ repos = <<>>
  /\ state = Dropped
  /\ term = TermOff
  /\ result = Running
  /\ removeCall = None(NoPath)

\* The sequences over S of length at most n without a repeated element.
DistinctSeqs(S, n) ==
  {q \in UNION {[1..k -> S] : k \in 0..n} :
      \A i, j \in 1..Len(q) : i # j => q[i] # q[j]}

\* ------------------------------------------------------------ assign_hotkeys
\* Pools of at most MaxPool distinct symbols, the first ones of the
\* repository pool, in every order; n up to one past K + K*K.
MaxPool == 3

HotkeyCalls ==
  {[fn |-> "assign_hotkeys", pool |-> q, n |-> n] :
     q \in DistinctSeqs({hotkey_pool_repos[i] : i \in 1..MaxPool}, MaxPool),
     n \in 0..(MaxPool + MaxPool * MaxPool + 1)}

HotkeyInit == NavOff /\ fn_in \in HotkeyCalls /\ fn_out = None(<<>>)

AssignHotkeys ==
  /\ fn_in.fn = "assign_hotkeys"
  /\ ~fn_out.some
  /\ fn_out' = Some(assign_hotkeys(fn_in.n, fn_in.pool))
  /\ UNCHANGED <<navvars, fn_in>>

SpecHotkeys == HotkeyInit /\ [][AssignHotkeys]_vars

\* ------------------------------------------------------ visible projection
\* Lists of at most MaxItems items whose fields are drawn from short texts in
\* both cases, and filters of at most MaxProjFilter characters.
MaxItems == 3
MaxProjFilter == 2

ProjFilters == UNION {[1..k -> {"g", "G", "a", " "}] : k \in 0..MaxProjFilter}

ProjRepos ==
  {[hash |-> "", name |-> nm, anchor |-> an, git_common_dir |-> NoPath] :
     nm \in {<<"G">>, <<"a">>}, an \in {<<"a", "g">>, <<"G", "a">>}}

ProjEntries ==
  {[path |-> pa, branch |-> br] :
     pa \in {<<"a", "G">>, <<"g">>},
     br \in {None(<<>>), Some(<<"a", "G">>)}}

ProjCalls ==
  {[fn |-> "visible_repos", items |-> q, filter |-> f] :
     q \in UNION {[1..k -> ProjRepos] : k \in 0..MaxItems}, f \in ProjFilters}
  \cup
  {[fn |-> "visible_worktrees_idx", items |-> q, filter |-> f] :
     q \in UNION {[1..k -> ProjEntries] : k \in 0..MaxItems}, f \in ProjFilters}

ProjInit == NavOff /\ fn_in \in ProjCalls /\ fn_out = None(<<>>)

ProjectRepos ==
  /\ fn_in.fn = "visible_repos"
  /\ ~fn_out.some
  /\ fn_out' = Some(visible_repos(fn_in.items, fn_in.filter))
  /\ UNCHANGED <<navvars, fn_in>>

ProjectWorktrees ==
  /\ fn_in.fn = "visible_worktrees_idx"
  /\ ~fn_out.some
  /\ fn_out' = Some(visible_worktrees_idx(fn_in.items, fn_in.filter))
  /\ UNCHANGED <<navvars, fn_in>>

SpecProject == ProjInit /\ [][ProjectRepos \/ ProjectWorktrees]_vars

\* -------------------------------------------------- sanitize_branch_for_path
\* The characters of the model: a letter, a digit, the separator, the dot,
\* the underscore and one character outside [A-Za-z0-9._-].
BranchChars == {"a", "7", "/", ".", "_", "!"}

\* char::is_ascii_alphanumeric on the lowercase letters, the digits and the
\* other characters of the model.
is_ascii_alphanumeric(c) ==
  c \in {"a", "b", "c", "d", "e", "f", "g", "h", "i", "j", "k", "l", "m",
         "n", "o", "p", "q", "r", "s", "t", "u", "v", "w", "x", "y", "z",
         "0", "1", "2", "3", "4", "5", "6", "7", "8", "9"}

\* str::split('/'): the pieces between separators, empty ones included; cur
\* is the piece being read at position i.
RECURSIVE split(_, _, _)
split(s, i, cur) ==
  IF i > Len(s) THEN <<cur>>
  ELSE IF s[i] = "/" THEN <<cur>> \o split(s, i + 1, <<>>)
  ELSE split(s, i + 1, Append(cur, s[i]))

\* main.rs lines 408-417: the character map of one segment.
cleaned(seg) ==
  [k \in 1..Len(seg) |->
     IF is_ascii_alphanumeric(seg[k]) \/ seg[k] \in {"-", "_", "."}
     THEN seg[k] ELSE "-"]

\* The path built by pushing the segments q in order (a PathBuf, as the
\* sequence of what was pushed).
RECURSIVE push_all(_, _)
push_all(q, keep_empty) ==
  IF q = <<>> THEN <<>>
  ELSE (IF Head(q) = <<>> /\ ~keep_empty THEN <<>> ELSE <<cleaned(Head(q))>>)
       \o push_all(Tail(q), keep_empty)

\* A sanitizer that pushes the empty segments too.
sanitize_branch_for_path_keep_empty(branch) ==
  LET out == push_all(split(branch, 1, <<>>), TRUE)
  IN IF out = <<>> THEN <<<<"b", "r", "a", "n", "c", "h">>>> ELSE out

\* main.rs sanitize_branch_for_path
sanitize_branch_for_path(branch) ==
  LET out == push_all(split(branch, 1, <<>>), FALSE)
  IN IF out = <<>> THEN <<<<"b", "r", "a", "n", "c", "h">>>> ELSE out

\* Branch names of at most MaxBranchLen characters.
MaxBranchLen == 4

SanitizeCalls ==
  {[fn |-> "sanitize_branch_for_path", branch |-> b] :
     b \in UNION {[1..k -> BranchChars] : k \in 0..MaxBranchLen}}

SanitizeInit == NavOff /\ fn_in \in SanitizeCalls /\ fn_out = None(<<>>)

Sanitize ==
  /\ fn_in.fn = "sanitize_branch_for_path"
  /\ ~fn_out.some
  /\ fn_out' = Some(sanitize_branch_for_path(fn_in.branch))
  /\ UNCHANGED <<navvars, fn_in>>

SpecSanitize == SanitizeInit /\ [][Sanitize]_vars

\* ------------------------------------------------------------- Command::New
\* One argument of a git command line: a literal word, or a value of kind
\* "branch" or "base" (its characters v) or "path" (its segments p).
Lit(w) == [k |-> "lit", s |-> w, v |-> <<>>, p |-> <<>>]

Val(kind, chars, segs) == [k |-> kind, s |-> "", v |-> chars, p |-> segs]

\* main.rs lines 133-139: the explicit path (written as the one segment
\* "explicit"), or the sanitized branch under the worktrees directory; the
\* path is the sequence of segments below its root.
wt_path_of(branch, path) ==
  IF path.some THEN [root |-> "path", rel |-> path.val]
  ELSE [root |-> "worktrees_dir", rel |-> sanitize_branch_for_path(branch)]

\* RepoContext::git_show_ref_head: git show-ref --verify --quiet
\* refs/heads/<branch>, answered from the local branches.
git_show_ref_head(locals, branch) == branch \in locals

show_ref_args(branch) ==
  <<Lit("show-ref"), Lit("--verify"), Lit("--quiet"), Val("branch", branch, <<>>)>>

\* An argument list that always asks for a new branch.
new_args_always_create(branch, wt, branch_exists, base) ==
  <<Lit("worktree"), Lit("add"), Lit("-b"), Val("branch", branch, <<>>), Val("path", <<>>, wt.rel)>>
  \o (IF branch_exists THEN <<Val("branch", branch, <<>>)>>
      ELSE IF base.some THEN <<Val("base", base.val, <<>>)>> ELSE <<>>)

\* main.rs lines 143-153: the arguments of git worktree add.
new_args(branch, wt, branch_exists, base) ==
  <<Lit("worktree"), Lit("add")>>
  \o (IF ~branch_exists THEN <<Lit("-b"), Val("branch", branch, <<>>)>> ELSE <<>>)
  \o <<Val("path", <<>>, wt.rel)>>
  \o (IF branch_exists THEN <<Val("branch", branch, <<>>)>>
      ELSE IF base.some THEN <<Val("base", base.val, <<>>)>> ELSE <<>>)

\* The text https://github.com/acme/app/pull/ that a pull-request number
\* follows.
PrUrlPrefix ==
  <<"h", "t", "t", "p", "s", ":", "/", "/",
    "g", "i", "t", "h", "u", "b", ".", "c", "o", "m", "/",
    "a", "c", "m", "e", "/", "a", "p", "p", "/", "p", "u", "l", "l", "/">>

PrNumbers == {<<"7">>, <<"4", "2">>}

PrBranch(n) == <<"p", "r", "/">> \o n

\* The texts given to gw new: a pull-request URL or a branch name.
NewTexts ==
  {PrUrlPrefix \o n : n \in PrNumbers}
  \cup {<<"f">>} \cup {PrBranch(n) : n \in PrNumbers}

RemoteNames == {"origin", "upstream"}

\* git check-ref-format refuses a branch name that holds a colon.
valid_ref(branch) == \A k \in 1..Len(branch) : branch[k] # ":"

\* The calls of gw new; remotes gives, for each configured remote, the
\* branches it holds.
NewCalls ==
  {[fn |-> "new", branch |-> t, base |-> b, path |-> q, locals |-> l,
    remotes |-> r, git_ok |-> g] :
     t \in NewTexts, b \in {None(<<>>), Some(<<"m">>)},
     q \in {None(<<>>), Some(<<<<"e", "x">>>>)},
     l \in SUBSET {<<"f">>, <<"p", "r", "/", "7">>},
     r \in UNION {[rs -> SUBSET {<<"f">>}] : rs \in SUBSET RemoteNames},
     g \in BOOLEAN}

NewInit ==
  /\ NavOff
  /\ fn_in \in NewCalls
  /\ fn_in.git_ok => valid_ref(fn_in.branch)
  /\ fn_out = None(<<>>)

\* main.rs lines 92-167, Command::New with the worktrees directory
\* configured: the worktree path, its parent directories, the branch test,
\* git worktree add and, when git succeeded, the new anchor. calls lists the
\* git command lines run, in order.
CommandNew ==
  /\ fn_in.fn = "new"
  /\ ~fn_out.some
  /\ LET wt == wt_path_of(fn_in.branch, fn_in.path)
         branch_exists == git_show_ref_head(fn_in.locals, fn_in.branch)
         args == new_args(fn_in.branch, wt, branch_exists, fn_in.base)
     IN fn_out' = Some([wt_path |-> wt,
                        created_dirs |-> SubSeq(wt.rel, 1, Len(wt.rel) - 1),
                        calls |-> <<show_ref_args(fn_in.branch), args>>,
                        ok |-> fn_in.git_ok,
                        anchor_path |-> IF fn_in.git_ok THEN Some(wt)
                                        ELSE None(wt)])
  /\ UNCHANGED <<navvars, fn_in>>

SpecNew == NewInit /\ [][CommandNew]_vars

\* ------------------------------------------------------------ chord typing
\* The chord arms on lists longer than the navigator's world provides: a
\* screen of one navigator showing n items with an empty filter, and keys
\* typed in Normal mode. fn_in holds the navigator, the screen and n, fn_out
\* the AppState at the top of the iteration.
ChordSizes == {2, 21, 24}

ChordKeys ==
  {CharKey("a"), CharKey("s"), CharKey("n"), CharKey("m"), CharKey("g"), TabKey}

ChordRepos(n) ==
  [i \in 1..n |-> [hash |-> ToString(i), name |-> <<"r">>,
                   anchor |-> <<"R", ToString(i)>>,
                   git_common_dir |-> <<"C", ToString(i)>>]]

ChordPool(scr) ==
  IF scr = "Repo" THEN hotkey_pool_repos ELSE hotkey_pool_worktrees

ChordCodes == assign_hotkeys(fn_in.n, ChordPool(fn_in.screen))

\* The selection of the screen under study.
ChordSelected(st) ==
  IF fn_in.screen = "Repo" THEN st.repo_selected ELSE st.wt_selected

ChordInit ==
  /\ NavOff
  /\ fn_in \in [fn : {"chord"}, app : {"picker", "go"},
                screen : {"Repo", "Worktree"}, n : ChordSizes]
  /\ fn_out =
       Some([InitState(fn_in.app, ChordRepos(fn_in.n), None("")) EXCEPT
               !.screen = fn_in.screen,
               !.active_repo = Some(ChordRepos(fn_in.n)[1]),
               !.wt_entries =
                  IF fn_in.screen = "Repo" THEN <<>>
                  ELSE [i \in 1..fn_in.n |->
                          [path |-> <<"W", ToString(i)>>, branch |-> None(<<>>)]]])

\* The screen's handler on AppState st (picker.rs 368-388, go_tui.rs
\* 313-331).
ChordHandle(st, key) ==
  LET vis_repos == visible_repos(ChordRepos(fn_in.n), st.repo_filter)
      vis_wt_idx == visible_worktrees_idx(st.wt_entries, st.wt_filter)
  IN IF fn_in.screen = "Repo"
     THEN IF fn_in.app = "picker"
          THEN handle_repo_key(st, key, vis_repos, ChordCodes, NoInput)
          ELSE go_handle_repo_key(st, key, vis_repos, ChordCodes)
     ELSE IF fn_in.app = "picker"
          THEN handle_worktree_key(st, key, vis_wt_idx, NoInput)
          ELSE go_handle_worktree_key(st, key, vis_wt_idx, NoInput)

\* A key whose handling stays within AppState, and the next loop top.
ChordKey(key) ==
  /\ fn_in.fn = "chord"
  /\ LET o == ChordHandle(fn_out.val, key)
     IN /\ o.ret = "continue"
        /\ o.term = term /\ o.world = world /\ o.cfg = cfg
        /\ fn_out' = Some(loop_top(o.state, ChordRepos(fn_in.n)))
  /\ UNCHANGED <<navvars, fn_in>>

\* No key for dt ms while a chord is pending.
ChordIdle(dt) ==
  /\ fn_in.fn = "chord"
  /\ fn_out.val.hotkey_buf # <<>> \/ fn_out.val.pending_g
  /\ fn_out' = Some(loop_top(elapsed(fn_out.val, dt), ChordRepos(fn_in.n)))
  /\ UNCHANGED <<navvars, fn_in>>

SpecChord ==
  /\ ChordInit
  /\ [][\/ \E key \in ChordKeys : ChordKey(key)
        \/ \E dt \in TimeSteps : ChordIdle(dt)]_vars

\* ------------------------------------------------------------ load_worktrees
\* What git and the disk can hold for one repository when load_worktrees is
\* called: a main worktree alone or with a linked one, a common git directory
\* that is gone, or one whose listing comes back empty (the case of lines
\* 863-869).
LoadWorlds ==
  [Hashes -> UNION {{Alive(h, 0), Alive(h, 1), Dead,
                     [wts |-> <<>>, common_ok |-> TRUE]} : h \in Hashes}]

\* The calls: a registered repository whose stored anchor is its main
\* worktree, its linked worktree, a path that is gone, or the main worktree
\* of the other repository.
LoadCalls ==
  {[fn |-> "load_worktrees", world |-> w,
    cfg |-> [x \in Hashes |-> Config(x, IF x = h THEN a ELSE MainPath(x))],
    repo |-> [hash |-> h, name |-> RepoName(h), anchor |-> a,
              git_common_dir |-> CommonDir(h)]] :
     w \in {v \in LoadWorlds : \A x \in Hashes : v[x].wts # <<>> =>
                                  v[x].wts[1] = MainEntry(x)},
     h \in Hashes,
     a \in {MainPath("1"), MainPath("2"), LinkedPath("1", 1), GonePath("1")}}

LoadInit == NavOff /\ fn_in \in LoadCalls /\ fn_out = None(<<>>)

LoadWorktrees ==
  /\ fn_in.fn = "load_worktrees"
  /\ ~fn_out.some
  /\ fn_out' = Some(load_worktrees(fn_in.cfg, fn_in.world, fn_in.repo))
  /\ UNCHANGED <<navvars, fn_in>>

SpecLoad == LoadInit /\ [][LoadWorktrees]_vars

\* ------------------------------------------------------- chord resolution
\* The catch-all Char(c) arm in its two forms, on every buffer of at most two
\* symbols of a pool of MaxPool symbols, every keystroke of that pool, the
\* codes assigned to n items (n up to one past K + K*K) and a selection on
\* the first or the last item.
ResolvePool == SubSeq(hotkey_pool_repos, 1, MaxPool)

ResolveCalls ==
  {[fn |-> "resolve_chord", buf |-> b, c |-> ResolvePool[k], n |-> n, sel |-> x] :
     b \in UNION {[1..l -> {ResolvePool[i] : i \in 1..MaxPool}] : l \in 0..2},
     k \in 1..MaxPool,
     n \in 0..(MaxPool + MaxPool * MaxPool + 1),
     x \in {0, 1}}

ResolveInit == NavOff /\ fn_in \in ResolveCalls /\ fn_out = None(<<>>)

\* push_hotkey, then the resolution as written in picker.rs 616-624 (two
\* branches) and as written in go_tui.rs 489-499 (three branches).
Resolve ==
  /\ fn_in.fn = "resolve_chord"
  /\ ~fn_out.some
  /\ LET sel == IF fn_in.sel = 0 THEN 0 ELSE SatSub1(fn_in.n)
         st == [Dropped EXCEPT !.hotkey_buf = fn_in.buf, !.repo_selected = sel]
         s1 == push_hotkey(st, fn_in.c)
         codes == assign_hotkeys(fn_in.n, ResolvePool)
     IN fn_out' = Some([pushed |-> s1.hotkey_buf,
                        two |-> resolve_chord(s1.hotkey_buf, s1.repo_selected, codes),
                        three |-> resolve_chord3(s1.hotkey_buf, s1.repo_selected,
                                                 codes)])
  /\ UNCHANGED <<navvars, fn_in>>

SpecResolve == ResolveInit /\ [][Resolve]_vars

\* ================================================================== claims
\* A step in which the loop handles a key press.
KeyStep ==
  \E key \in Keys :
    \/ KeyHelp(key)
    \/ KeyFilter(key)
    \/ \E inp \in InputsFor(key) : KeyRepo(key, inp) \/ KeyWorktree(key, inp)

\* C1: whenever the entry point has returned, raw mode is off and the
\* alternate screen has been left, whatever made it return.
C1_TerminalRestoredOnReturn ==
  pc = "returned" => ~term.raw /\ ~term.alt

\* C2: a failure of the creation service or of the removal service never ends
\* the navigator: no returned error is the error of one of the two services.
C2_ServiceFailureKeepsRunning ==
  result.kind = "err" => result.msg \notin {"new failed", "remove failed"}

\* C3: the removal service is called only by y or Y in ConfirmDelete mode on
\* the worktree screen, with the target recorded in pending_delete; the
\* confirmation is used up by the call; ConfirmDelete is entered only by
\* Ctrl+D, which records the path of the entry selected in the visible list,
\* and the record does not change while the mode lasts.
C3_RemovalOnlyOnConfirm ==
  [][ /\ removeCall'.some =>
           /\ pc = "poll"
           /\ state.screen = "Worktree"
           /\ state.mode = "ConfirmDelete"
           /\ state.pending_delete = removeCall'
           /\ \E key \in Keys : \E inp \in InputsFor(key) : KeyWorktree(key, inp)
           /\ \A key \in Keys :
                (\E inp \in InputsFor(key) : KeyWorktree(key, inp))
                  => IsChar(key, "y") \/ IsChar(key, "Y")
           /\ pc' = "poll" =>
                state'.mode # "ConfirmDelete" /\ ~state'.pending_delete.some
      /\ (pc' = "poll" /\ state.mode # "ConfirmDelete"
            /\ state'.mode = "ConfirmDelete") =>
           /\ pc = "poll"
           /\ state.screen = "Worktree"
           /\ KeyWorktree(CtrlKey("d"), NoInput)
           /\ state.wt_selected < Len(VisWtIdx)
           /\ state'.pending_delete =
                Some(state.wt_entries[VisWtIdx[state.wt_selected + 1]].path)
      /\ (pc' = "poll" /\ state.mode = "ConfirmDelete"
            /\ state'.mode = "ConfirmDelete") =>
           state'.pending_delete = state.pending_delete
    ]_vars

\* A removal has been called and the navigator goes on.
C3_Witness == removeCall.some /\ pc = "poll" /\ state.status = "worktree removed"

\* C4: the (screen, mode) pair is always one of RepoList x {Normal, Filter,
\* Help} or WorktreeList x {Normal, Filter, ConfirmDelete, Help}.
C4_LegalScreenMode ==
  \/ state.screen = "Repo" /\ state.mode \in {"Normal", "Filter", "Help"}
  \/ /\ state.screen = "Worktree"
     /\ state.mode \in {"Normal", "Filter", "ConfirmDelete", "Help"}

\* The navigator waits for the answer to a delete confirmation.
C4_Witness ==
  pc = "poll" /\ state.screen = "Worktree" /\ state.mode = "ConfirmDelete"

\* C5: a key press ends the loop only when it is handled in Normal mode, and
\* the loop ends with "no selection" only on a quit key: q on either screen
\* or Esc on the repository screen.
C5_QuitOnlyFromNormal ==
  [][ (pc = "poll" /\ pc' = "cleanup" /\ KeyStep) =>
        /\ state.mode = "Normal"
        /\ result'.kind = "none" =>
             \E key \in {CharKey("q"), EscKey} :
               \/ KeyRepo(key, NoInput)
               \/ IsChar(key, "q") /\ KeyWorktree(key, NoInput)
    ]_vars

\* C6: whenever a frame is drawn and a key dispatched, each selection is at
\* most max(0, len(visible) - 1) for the entries and the filter of its screen.
C6_SelectionClamped ==
  pc = "poll" =>
    /\ state.repo_selected <= SatSub1(Len(VisRepos))
    /\ state.wt_selected <= SatSub1(Len(VisWtIdx))

\* The filter hides every worktree of a non-empty listing: the selection is
\* the 0 of an empty visible list.
C6_Witness ==
  /\ pc = "poll"
  /\ state.screen = "Worktree"
  /\ state.wt_entries # <<>>
  /\ VisWtIdx = <<>>
  /\ state.wt_selected = 0

\* C7: after Enter on the repository screen in Normal mode, if the navigator
\* still runs, it shows the worktree screen in Normal mode, the active
\* repository is the selected one, the entries are its listing as it is now,
\* the worktree selection is 0, the worktree filter empty and the chord
\* buffer and the double-tap flag cleared.
C7_EnterOpensSelectedRepo ==
  [][ (pc = "poll" /\ pc' = "poll" /\ state.screen = "Repo"
         /\ state.mode = "Normal" /\ state.repo_selected < Len(VisRepos)
         /\ KeyRepo(EnterKey, NoInput)) =>
        LET repo == VisRepos[state.repo_selected + 1] IN
        /\ state'.screen = "Worktree"
        /\ state'.mode = "Normal"
        /\ state'.active_repo.some
        /\ state'.active_repo.val.hash = repo.hash
        /\ world'[repo.hash].common_ok
        /\ state'.wt_entries = world'[repo.hash].wts
        /\ state'.wt_selected = 0
        /\ state'.wt_filter = <<>>
        /\ state'.hotkey_buf = <<>>
        /\ ~state'.pending_g
    ]_vars

\* C8: Enter on the worktree screen in Normal mode with a non-empty visible
\* list ends the loop with the path of entries[visible[selected]].
C8_EnterReturnsVisibleEntry ==
  [][ (pc = "poll" /\ state.screen = "Worktree" /\ state.mode = "Normal"
         /\ VisWtIdx # <<>> /\ KeyWorktree(EnterKey, NoInput)) =>
        /\ pc' = "cleanup"
        /\ result'.kind = "sel"
        /\ result'.sel.worktree_path =
             state.wt_entries[VisWtIdx[state.wt_selected + 1]].path
    ]_vars

\* The navigator has returned the linked worktree of the first repository,
\* which is never the first entry of the listing.
C8_Witness ==
  /\ pc = "returned"
  /\ result.kind = "sel"
  /\ result.sel.worktree_path = LinkedPath("1", 1)

\* C9: no draw, no poll and no return of a handler finds the terminal
\* suspended by a "new" action without a resume having been attempted since.
C9_SuspendIsResumed == ~term.pending_resume

\* A "new" action whose creation service failed has been handled.
C9_Witness ==
  \/ result.msg = "new failed"
  \/ pc = "poll" /\ state.status = "new worktree failed"

C11_RepairedAnchorIsUsed ==
  [][ (pc = "poll" /\ app = "picker" /\ state.screen = "Repo"
         /\ state.mode = "Normal" /\ state.repo_selected < Len(VisRepos)
         /\ cfg[VisRepos[state.repo_selected + 1].hash].anchor_path
              # VisRepos[state.repo_selected + 1].anchor
         /\ exists(world, cfg[VisRepos[state.repo_selected + 1].hash].anchor_path)
         /\ KeyRepo(EnterKey, NoInput)) =>
        fast_path(world, VisRepos[state.repo_selected + 1])
    ]_vars

\* C12: a start of the picker without any terminal fails with the "no TTY"
\* error, raw mode untouched, whatever the registry and the current
\* repository are.
C12_NoTtyIsFatal ==
  [][ (pc = "entry" /\ app = "picker"
         /\ \E fail \in StartFailures : Start(FALSE, fail)) =>
        /\ result'.kind = "err"
        /\ result'.msg = "no TTY available for interactive picker"
        /\ ~term'.raw
    ]_vars

\* C13: for a pool of K >= 1 distinct symbols and n <= K + K*K,
\* assign_hotkeys(n, pool) has exactly n codes, no two of them equal.
C13_AssignCountDistinct ==
  (fn_in.fn = "assign_hotkeys" /\ fn_out.some /\ Len(fn_in.pool) >= 1
     /\ fn_in.n <= Len(fn_in.pool) + Len(fn_in.pool) * Len(fn_in.pool)) =>
    /\ Len(fn_out.val) = fn_in.n
    /\ \A i, j \in 1..Len(fn_out.val) : i # j => fn_out.val[i] # fn_out.val[j]

\* The largest case: a pool of MaxPool symbols and n = K + K*K, every one-
\* and two-letter code in use.
C13_Witness ==
  /\ fn_in.fn = "assign_hotkeys"
  /\ fn_out.some
  /\ Len(fn_in.pool) = MaxPool
  /\ fn_in.n = MaxPool + MaxPool * MaxPool
  /\ Len(fn_out.val[fn_in.n]) = 2

\* Text t holds f somewhere, letter case set aside; every text holds the
\* empty f.
HoldsIgnoringCase(t, f) ==
  \E i \in 0..(Len(t) - Len(f)) :
    \A j \in 1..Len(f) : LowerChar(t[i + j]) = LowerChar(f[j])

\* The positions of the items of the call under study that the claim keeps.
KeptPositions ==
  {i \in 1..Len(fn_in.items) :
     HoldsIgnoringCase(IF fn_in.fn = "visible_repos"
                       THEN RepoText(fn_in.items[i])
                       ELSE WtText(fn_in.items[i]),
                       fn_in.filter)}

\* q lists exactly the positions of K, in increasing order.
ListsInOrder(q, K) ==
  /\ Len(q) = Cardinality(K)
  /\ \A k \in 1..Len(q) : q[k] \in K
  /\ \A k \in 1..(Len(q) - 1) : q[k] < q[k + 1]

\* C14: the projection keeps exactly the items whose search text holds the
\* filter as a substring whatever the letter case, in their original order;
\* an empty filter keeps the whole list; projecting the projected items
\* again with the same filter keeps all of them.
C14_ProjectionExactOrderedIdempotent ==
  /\ (fn_in.fn = "visible_worktrees_idx" /\ fn_out.some) =>
       /\ ListsInOrder(fn_out.val, KeptPositions)
       /\ fn_in.filter = <<>> => fn_out.val = [i \in 1..Len(fn_in.items) |-> i]
       /\ visible_worktrees_idx(
            [k \in 1..Len(fn_out.val) |-> fn_in.items[fn_out.val[k]]],
            fn_in.filter) = [k \in 1..Len(fn_out.val) |-> k]
  /\ (fn_in.fn = "visible_repos" /\ fn_out.some) =>
       /\ \E q \in [1..Len(fn_out.val) -> 1..Len(fn_in.items)] :
            /\ ListsInOrder(q, KeptPositions)
            /\ fn_out.val = [k \in 1..Len(q) |-> fn_in.items[q[k]]]
       /\ fn_in.filter = <<>> => fn_out.val = fn_in.items
       /\ visible_repos(fn_out.val, fn_in.filter) = fn_out.val

\* A lower-case filter that only an upper-case letter of the third item
\* matches: the third item is kept, the first two are dropped.
C14_Witness ==
  /\ fn_in.fn = "visible_worktrees_idx"
  /\ fn_out.some
  /\ fn_in.filter = <<"a", "g">>
  /\ Len(fn_in.items) = 3
  /\ fn_out.val = <<3>>

\* The positions where a non-empty '/'-separated segment of b starts.
SegmentStarts(b) ==
  {i \in 1..Len(b) : b[i] # "/" /\ (i = 1 \/ b[i - 1] = "/")}

\* The last position of the segment of b that starts at i.
SegmentEnd(b, i) ==
  CHOOSE j \in i..Len(b) :
    /\ \A k \in i..j : b[k] # "/"
    /\ j = Len(b) \/ b[j + 1] = "/"

\* The k-th start, in increasing order.
NthStart(b, k) ==
  CHOOSE i \in SegmentStarts(b) :
    Cardinality({x \in SegmentStarts(b) : x < i}) = k - 1

\* C15: the sanitized path is never empty; its segments are the non-empty
\* '/'-separated segments of the input, in order, each character outside
\* [A-Za-z0-9._-] replaced by '-'; with no segment it is the one segment
\* "branch".
C15_SanitizeSegments ==
  (fn_in.fn = "sanitize_branch_for_path" /\ fn_out.some) =>
    LET b == fn_in.branch
        n == Cardinality(SegmentStarts(b))
    IN /\ fn_out.val # <<>>
       /\ \A k \in 1..Len(fn_out.val) :
            fn_out.val[k] # <<>> /\ \A x \in 1..Len(fn_out.val[k]) : fn_out.val[k][x] # "/"
       /\ n = 0 => fn_out.val = << <<"b", "r", "a", "n", "c", "h">> >>
       /\ n > 0 =>
            /\ Len(fn_out.val) = n
            /\ \A k \in 1..n :
                 LET i == NthStart(b, k)
                     j == SegmentEnd(b, i)
                 IN /\ Len(fn_out.val[k]) = j - i + 1
                    /\ \A x \in 0..(j - i) :
                         fn_out.val[k][x + 1] =
                           IF b[i + x] \in {"a", "7", ".", "_", "-"}
                           THEN b[i + x] ELSE "-"

\* Two segments around a doubled separator, one with a replaced character.
C15_Witness ==
  /\ fn_in.fn = "sanitize_branch_for_path"
  /\ fn_out.some
  /\ fn_in.branch = <<"!", "/", "/", "a">>
  /\ fn_out.val = << <<"-">>, <<"a">> >>

\* C16: no segment of the sanitized path is "." or "..", so the path joined
\* to the worktrees directory stays inside it.
C16_SanitizeStaysInside ==
  (fn_in.fn = "sanitize_branch_for_path" /\ fn_out.some) =>
    \A k \in 1..Len(fn_out.val) :
      fn_out.val[k] # <<".">> /\ fn_out.val[k] # <<".", ".">>

\* The arguments of one git command line, as a set.
ArgsOf(c) == {c[j] : j \in 1..Len(c)}

\* The run sets tracking up: it fetches, or it adds the worktree with --track.
SetsUpTracking(calls) ==
  \E i \in 1..Len(calls) :
    calls[i][1] = Lit("fetch") \/ Lit("--track") \in ArgsOf(calls[i])

\* C17: given a pull-request URL ending in /<owner>/<repo>/pull/<number>,
\* gw new works on the local branch pr/<number>, sets tracking up, and places
\* the worktree at <worktrees_dir>/pr/<number>, two nested segments.
C17_PrUrlPlan ==
  \A n \in PrNumbers :
    (fn_in.fn = "new" /\ fn_out.some /\ fn_in.branch = PrUrlPrefix \o n
       /\ ~fn_in.path.some)
    => /\ fn_out.val.wt_path.root = "worktrees_dir"
       /\ fn_out.val.wt_path.rel = <<<<"p", "r">>, n>>
       /\ Val("branch", PrBranch(n), <<>>) \in ArgsOf(fn_out.val.calls[2])
       /\ SetsUpTracking(fn_out.val.calls)

\* C18: when a local branch of the requested name exists, gw new checks that
\* branch out as it is: the only git commands are the local branch test and
\* git worktree add <path> <branch>, with no new branch, no tracking, no
\* base and no command that reaches a remote, whatever the remotes hold and
\* whether or not a base was given.
C18_LocalBranchNoNetwork ==
  (fn_in.fn = "new" /\ fn_out.some /\ fn_in.branch \in fn_in.locals)
  => /\ fn_out.val.calls =
          <<show_ref_args(fn_in.branch),
            <<Lit("worktree"), Lit("add"), Val("path", <<>>, fn_out.val.wt_path.rel),
              Val("branch", fn_in.branch, <<>>)>>>>
     /\ ~SetsUpTracking(fn_out.val.calls)

\* A local branch f checked out while both remotes hold f and a base was
\* given.
C18_Witness ==
  /\ fn_in.fn = "new"
  /\ fn_out.some
  /\ fn_in.branch = <<"f">>
  /\ fn_in.branch \in fn_in.locals
  /\ fn_in.base.some
  /\ DOMAIN fn_in.remotes = RemoteNames
  /\ \A r \in RemoteNames : <<"f">> \in fn_in.remotes[r]

\* C19: a branch absent locally and held by the only configured remote is
\* taken from that remote with tracking set up, without a prompt; with
\* several remotes no remote is used unless it was chosen explicitly.
C19_RemoteBranchIsTracked ==
  (fn_in.fn = "new" /\ fn_out.some /\ fn_in.branch \notin fn_in.locals
     /\ \E r \in RemoteNames :
          DOMAIN fn_in.remotes = {r} /\ fn_in.branch \in fn_in.remotes[r])
  => /\ SetsUpTracking(fn_out.val.calls)
     /\ Lit("-b") \notin ArgsOf(fn_out.val.calls[2])

\* C20: a g pressed in Normal mode (on the worktree screen, with its
\* repository at hand) while a first g is pending selects index 0 only if it
\* is handled within DoubleTapMs of the first press; handled later, or with
\* no g pending, it only arms the pending flag and leaves the selection
\* where it was.
C20_DoubleTapWindow ==
  [][\A inp \in {NoInput} :
       (pc = "poll" /\ state.mode = "Normal"
          /\ (state.screen = "Worktree" => state.active_repo.some)
          /\ (KeyRepo(CharKey("g"), inp) \/ KeyWorktree(CharKey("g"), inp)))
       => IF state.pending_g /\ state.last_g_at <= DoubleTapMs
          THEN /\ ~state'.pending_g
               /\ state'.repo_selected =
                    (IF state.screen = "Repo" THEN 0 ELSE state.repo_selected)
               /\ state'.wt_selected =
                    (IF state.screen = "Worktree" THEN 0 ELSE state.wt_selected)
          ELSE /\ state'.pending_g
               /\ state'.repo_selected = state.repo_selected
               /\ state'.wt_selected = state.wt_selected]_vars

\* C21: a chord buffer that is not empty and to which nothing was appended
\* for more than HotkeyTimeoutMs is emptied by the next loop iteration that
\* finds no input; that iteration changes neither selection, nor the screen
\* or the mode.
C21_IdleBufferExpires ==
  [][\A dt \in TimeSteps :
       (pc = "poll" /\ state.hotkey_buf # <<>>
          /\ state.last_hotkey_at + dt > HotkeyTimeoutMs /\ PollIdle(dt))
       => /\ state'.hotkey_buf = <<>>
          /\ state'.repo_selected = state.repo_selected
          /\ state'.wt_selected = state.wt_selected
          /\ state'.screen = state.screen
          /\ state'.mode = state.mode]_vars

\* A buffer that the next idle step of DoubleTapMs expires, with the second
\* item selected.
C21_Witness ==
  /\ pc = "poll"
  /\ state.hotkey_buf # <<>>
  /\ state.last_hotkey_at <= HotkeyTimeoutMs
  /\ state.last_hotkey_at + DoubleTapMs > HotkeyTimeoutMs
  /\ state.repo_selected = 1

\* C22: closing Help with ?, Esc or q gives Normal mode on the same screen
\* and the status line that was shown when Help was opened: at every step
\* that opens Help, each of the three keys would bring that line back.
C22_HelpCloseRestoresStatus ==
  [][(pc = "poll" /\ pc' = "poll" /\ state.mode = "Normal"
        /\ state'.mode = "Help")
     => \A key \in {CharKey("?"), EscKey, CharKey("q")} :
          LET closed == loop_top(help_key(state', key), repos') IN
          /\ closed.mode = "Normal"
          /\ closed.screen = state.screen
          /\ closed.status = state.status]_vars

\* C23: Esc in Filter mode reverts the mode to Normal and nothing else that
\* is listed: both filters, both selections and the screen stay, and the
\* loop goes on.
C23_FilterEscKeepsText ==
  [][(pc = "poll" /\ state.mode = "Filter" /\ KeyFilter(EscKey))
     => /\ pc' = "poll"
        /\ state'.mode = "Normal"
        /\ state'.screen = state.screen
        /\ state'.repo_filter = state.repo_filter
        /\ state'.wt_filter = state.wt_filter
        /\ state'.repo_selected = state.repo_selected
        /\ state'.wt_selected = state.wt_selected
        /\ visible_repos(repos', state'.repo_filter) = VisRepos
        /\ visible_worktrees_idx(state'.wt_entries, state'.wt_filter) = VisWtIdx]_vars

\* A filter kept by a cancelled Filter mode.
C23_Witness ==
  /\ pc = "poll"
  /\ state.mode = "Normal"
  /\ state.status = "cancelled filter"
  /\ state.repo_filter # <<>> \/ state.wt_filter # <<>>

\* C24: Esc on the worktree screen in Normal mode goes back to the
\* repository screen in Normal mode and the loop goes on; no step that
\* enters or stays on the worktree screen, this Esc included, changes the
\* repository filter or the repository selection; Esc or q on the repository
\* screen in Normal mode ends the navigator with no selection.
C24_EscBackAndQuit ==
  [][/\ (pc = "poll" /\ pc' = "poll"
          /\ (state.screen = "Worktree" \/ state'.screen = "Worktree"))
        => /\ state'.repo_filter = state.repo_filter
           /\ state'.repo_selected = state.repo_selected
     /\ (pc = "poll" /\ state.screen = "Worktree" /\ state.mode = "Normal"
          /\ KeyWorktree(EscKey, NoInput))
        => /\ pc' = "poll"
           /\ state'.screen = "Repo"
           /\ state'.mode = "Normal"
     /\ \A key \in {EscKey, CharKey("q")} :
          (pc = "poll" /\ state.screen = "Repo" /\ state.mode = "Normal"
             /\ KeyRepo(key, NoInput))
          => pc' = "cleanup" /\ result'.kind = "none"]_vars

\* Back on the repository screen, with the second repository still
\* selected.
C24_Witness ==
  /\ pc = "poll"
  /\ state.screen = "Repo"
  /\ state.mode = "Normal"
  /\ state.active_repo.some
  /\ state.repo_selected = 1

\* C29: once a g is pending, the handling of any key other than g clears
\* the flag.
C29_OtherKeyCancelsG ==
  [][(pc = "poll" /\ state.pending_g /\ state.mode = "Normal"
        /\ \E key \in Keys \ {CharKey("g")} :
             \E inp \in InputsFor(key) :
               KeyRepo(key, inp) \/ KeyWorktree(key, inp))
     => ~state'.pending_g]_vars

\* C30: in Filter mode every character typed without Control is consumed by
\* the filter: it is appended to the filter of the screen, and the next
\* iteration starts in Filter mode on the same screen with the other filter
\* as it was and each selection clamped to its visible list; Backspace
\* drops the last character of the filter, or nothing from an empty one.
C30_FilterTakesEveryChar ==
  (pc = "poll" /\ state.mode = "Filter")
  => /\ \A c \in Chars :
          LET r == handle_filter_mode(state, CharKey(c))
              after == loop_top(r.state, repos)
              mine == IF state.screen = "Repo" THEN state.repo_filter
                      ELSE state.wt_filter
          IN /\ r.handled
             /\ r.state = (IF state.screen = "Repo"
                           THEN [state EXCEPT !.repo_filter = mine \o <<c>>]
                           ELSE [state EXCEPT !.wt_filter = mine \o <<c>>])
             /\ after.mode = "Filter"
             /\ after.screen = state.screen
             /\ after.hotkey_buf = state.hotkey_buf
             /\ after.repo_selected =
                  Min(state.repo_selected,
                      SatSub1(Len(visible_repos(repos, after.repo_filter))))
             /\ after.wt_selected =
                  Min(state.wt_selected,
                      SatSub1(Len(visible_worktrees_idx(after.wt_entries,
                                                        after.wt_filter))))
     /\ LET r == handle_filter_mode(state, BackspaceKey)
            mine == IF state.screen = "Repo" THEN state.repo_filter
                    ELSE state.wt_filter
            less == SubSeq(mine, 1, SatSub1(Len(mine)))
        IN /\ r.handled
           /\ r.state = (IF state.screen = "Repo"
                         THEN [state EXCEPT !.repo_filter = less]
                         ELSE [state EXCEPT !.wt_filter = less])

\* Filter mode with a character typed, on the worktree screen.
C30_Witness ==
  /\ pc = "poll"
  /\ state.mode = "Filter"
  /\ state.screen = "Worktree"
  /\ state.wt_filter # <<>>

\* The buffer after push_hotkey appends c to buf.
Pushed(buf, c) == (IF Len(buf) >= 2 THEN <<>> ELSE buf) \o <<c>>

\* The positions (0-based) of the visible items that show the code buf.
ItemsCoded(buf) == {i \in 0..(fn_in.n - 1) : ChordCodes[i + 1] = buf}

\* C28: after every handled key the chord buffer holds at most one
\* character, so push_hotkey never finds two.
C28_BufferAtMostOne ==
  (fn_in.fn = "chord" /\ fn_out.some) => Len(fn_out.val.hotkey_buf) <= 1

\* A two-character code typed and matched on a list of ChordSizes' largest
\* size: its item is selected and the buffer is empty again.
C28_Witness ==
  /\ fn_in.fn = "chord"
  /\ fn_out.some
  /\ ChordSelected(fn_out.val) >= 22
  /\ fn_out.val.hotkey_buf = <<>>

\* The characters matched by an arm before the chord arm on the screen
\* under study.
ChordArms ==
  IF fn_in.app = "picker"
  THEN (IF fn_in.screen = "Repo" THEN PickerRepoArms ELSE PickerWtArms)
  ELSE (IF fn_in.screen = "Repo" THEN GoRepoArms ELSE GoWtArms)

\* C25: on each screen no character of the screen's pool is matched by
\* another Normal-mode arm, so a pool key typed without modifier does
\* nothing but chord resolution: it changes at most the buffer, its instant
\* and the selection, and leaves the buffer with the character appended or
\* empty.
C25_PoolKeysReachChords ==
  (fn_in.fn = "chord" /\ fn_out.some)
  => /\ \A i \in 1..Len(ChordPool(fn_in.screen)) :
          ChordPool(fn_in.screen)[i] \notin ChordArms
     /\ \A key \in ChordKeys :
          (key.code = "Char" /\ InPool(key.c, ChordPool(fn_in.screen)))
          => LET st == fn_out.val
                 o == ChordHandle(st, key)
             IN /\ o.ret = "continue"
                /\ o.state.hotkey_buf
                     \in {Pushed(st.hotkey_buf, key.c), <<>>}
                /\ o.state =
                     [st EXCEPT !.hotkey_buf = o.state.hotkey_buf,
                                !.last_hotkey_at = 0,
                                !.repo_selected = o.state.repo_selected,
                                !.wt_selected = o.state.wt_selected]

\* C26: on a list no longer than the pool, typing in Normal mode the pool
\* character shown next to an item selects that item, whatever was typed
\* before.
C26_SingleKeySelects ==
  [][\A key \in ChordKeys :
       (fn_in.fn = "chord" /\ fn_in.n <= Len(ChordPool(fn_in.screen))
          /\ key.code = "Char" /\ ItemsCoded(<<key.c>>) # {}
          /\ ChordKey(key))
       => ChordSelected(fn_out'.val) \in ItemsCoded(<<key.c>>)]_vars

\* C27: when a pool character has been appended and the buffer is an
\* assigned code, the item of that code becomes the selection, for codes of
\* one and of two characters; when the buffer is neither a code nor the
\* start of one, it is emptied and the selection stays.
C27_ChordResolution ==
  [][\A key \in ChordKeys :
       (fn_in.fn = "chord" /\ key.code = "Char"
          /\ InPool(key.c, ChordPool(fn_in.screen)) /\ key.c \notin ChordArms
          /\ ChordKey(key))
       => LET buf == Pushed(fn_out.val.hotkey_buf, key.c) IN
          /\ ItemsCoded(buf) # {}
             => ChordSelected(fn_out'.val) \in ItemsCoded(buf)
          /\ (ItemsCoded(buf) = {} /\ ~has_prefix(buf, ChordCodes))
             => /\ fn_out'.val.hotkey_buf = <<>>
                /\ ChordSelected(fn_out'.val) = ChordSelected(fn_out.val)]_vars

\* The item with the two-character code a s, selected.
C27_Witness ==
  /\ fn_in.fn = "chord"
  /\ fn_out.some
  /\ fn_in.n = 24
  /\ ChordCodes[ChordSelected(fn_out.val) + 1] = <<"a", "s">>

\* C31: in every reachable state a delete target is recorded exactly when the
\* mode is ConfirmDelete, and whenever one is recorded an active repository
\* is set and the screen is the worktree screen.
C31_PendingIffConfirmDelete ==
  /\ state.pending_delete.some <=> state.mode = "ConfirmDelete"
  /\ state.pending_delete.some =>
       state.active_repo.some /\ state.screen = "Worktree"

\* The linked worktree of the first repository awaits its confirmation.
C31_Witness ==
  /\ pc = "poll"
  /\ state.mode = "ConfirmDelete"
  /\ state.pending_delete = Some(LinkedPath("1", 1))
  /\ state.active_repo.some

C33_ConfirmDeleteCancelAndIgnore ==
  (pc = "poll" /\ state.mode = "ConfirmDelete")
  => /\ state.screen = "Worktree"
     /\ \A key \in Keys \cup {CharKey("N")} :
          LET o == handle_worktree_key(state, key, VisWtIdx, NoInput)
              after == loop_top(o.state, repos)
          IN /\ (IsChar(key, "n") \/ IsChar(key, "N") \/ key.code = "Esc") =>
                  /\ o.ret = "continue"
                  /\ o.state.mode = "Normal"
                  /\ ~o.state.pending_delete.some
                  /\ ~o.rm.some
                  /\ o.world = world
                  /\ o.state.screen = "Worktree"
             /\ ~(\E c \in {"y", "Y", "n", "N"} : IsChar(key, c))
                  /\ key.code # "Esc" =>
                  /\ o = Continue(state)
                  /\ after.mode = "ConfirmDelete"
                  /\ after.pending_delete = state.pending_delete
                  /\ after.screen = state.screen
                  /\ after.repo_selected = state.repo_selected
                  /\ after.wt_selected = state.wt_selected
                  /\ after.repo_filter = state.repo_filter
                  /\ after.wt_filter = state.wt_filter
                  /\ after.wt_entries = state.wt_entries

\* A delete confirmation has been cancelled: the worktree is still listed.
C33_Witness ==
  /\ pc = "poll"
  /\ state.status = "delete cancelled"
  /\ state.mode = "Normal"
  /\ ~state.pending_delete.some
  /\ ~removeCall.some

\* C34: in Normal mode, with v visible items on the screen shown and
\* selection s, j sets the selection to min(s + 1, max(0, v - 1)), k sets it
\* to max(s - 1, 0) and G sets it to max(0, v - 1); each of j, k, G and g
\* leaves the chord buffer empty, and the key does not end the loop.
C34_MovementClampsAndClearsBuffer ==
  (pc = "poll" /\ state.mode = "Normal")
  => \A c \in {"j", "k", "G", "g"} :
       LET key == CharKey(c)
           repo == state.screen = "Repo"
           v == IF repo THEN Len(VisRepos) ELSE Len(VisWtIdx)
           s == IF repo THEN state.repo_selected ELSE state.wt_selected
           o == IF repo
                THEN IF app = "picker"
                     THEN handle_repo_key(state, key, VisRepos, RepoCodes, NoInput)
                     ELSE go_handle_repo_key(state, key, VisRepos, RepoCodes)
                ELSE IF app = "picker"
                     THEN handle_worktree_key(state, key, VisWtIdx, NoInput)
                     ELSE go_handle_worktree_key(state, key, VisWtIdx, NoInput)
           after == loop_top(o.state, repos)
           t == IF repo THEN after.repo_selected ELSE after.wt_selected
           last == IF v = 0 THEN 0 ELSE v - 1
       IN /\ o.ret = "continue"
          /\ o.state.hotkey_buf = <<>>
          /\ c = "j" => t = (IF s + 1 <= last THEN s + 1 ELSE last)
          /\ c = "k" => t = (IF s = 0 THEN 0 ELSE s - 1)
          /\ c = "G" => t = last
          /\ (IF repo THEN o.state.repo_selected ELSE o.state.wt_selected) = t

\* The selection stands on the last of three visible worktrees, with no
\* chord pending.
C34_Witness ==
  /\ pc = "poll"
  /\ state.mode = "Normal"
  /\ state.screen = "Worktree"
  /\ Len(VisWtIdx) = 3
  /\ state.wt_selected = 2
  /\ state.hotkey_buf = <<>>

\* C35: with K = |pool| >= 1, assign_hotkeys(n, pool) returns n codes, the
\* code of position i < K being pool[i] and the code of position i >= K
\* being pool[((i - K) div K) mod K] followed by pool[(i - K) mod K]; the
\* code of a position does not depend on n: the codes for n are the first n
\* codes for n + 1; the pool a s d and n = 7 give a s d aa as ad sa.
C35_AssignRowMajorPrefix ==
  (fn_in.fn = "assign_hotkeys" /\ fn_out.some /\ Len(fn_in.pool) >= 1)
  => LET pool == fn_in.pool
         K == Len(pool)
         codes == fn_out.val
         more == assign_hotkeys(fn_in.n + 1, pool)
     IN /\ Len(codes) = fn_in.n
        /\ \A i \in 0..(fn_in.n - 1) :
             IF i < K
             THEN codes[i + 1] = <<pool[i + 1]>>
             ELSE codes[i + 1] = <<pool[(((i - K) \div K) % K) + 1],
                                    pool[((i - K) % K) + 1]>>
        /\ Len(more) = fn_in.n + 1
        /\ \A k \in 1..fn_in.n : more[k] = codes[k]
        /\ (pool = <<"a", "s", "d">> /\ fn_in.n = 7) =>
             codes = << <<"a">>, <<"s">>, <<"d">>, <<"a", "a">>, <<"a", "s">>,
                        <<"a", "d">>, <<"s", "a">> >>

\* The call of the example has returned, and its seventh code is s a.
C35_Witness ==
  /\ fn_in.fn = "assign_hotkeys"
  /\ fn_out.some
  /\ fn_in.pool = <<"a", "s", "d">>
  /\ fn_in.n = 7
  /\ fn_out.val[7] = <<"s", "a">>

\* C36: whenever the navigator ends because Enter selected a worktree entry,
\* the registry holds the returned worktree path as the anchor of the active
\* repository when the loop returns.
C36_EnterPersistsAnchor ==
  [][ (pc = "poll" /\ state.screen = "Worktree" /\ state.mode = "Normal"
         /\ state.active_repo.some
         /\ KeyWorktree(EnterKey, NoInput)
         /\ pc' = "cleanup" /\ result'.kind = "sel") =>
        cfg'[state.active_repo.val.hash].anchor_path = result'.sel.worktree_path
    ]_vars

\* C37: whenever load_worktrees succeeds, the anchor path it returns exists
\* on disk, whatever the stored anchor and whatever listing the fast path or
\* the fallback returned.
C37_ReturnedAnchorExists ==
  (fn_in.fn = "load_worktrees" /\ fn_out.some /\ fn_out.val.ok)
  => exists(fn_in.world, fn_out.val.anchor)

\* C38: after a "new" action whose creation succeeds (and whose resume does
\* not fail), the terminal is taken over again, the listing is read again,
\* so that the entries held by the navigator include the created worktree,
\* and the loop goes on.
C38_NewRequeriesAndContinues ==
  [][ (pc = "poll" /\ state.mode = "Normal"
         /\ \E inp \in InputsFor(CharKey("n")) :
              /\ inp.create = "ok"
              /\ inp.resume = "none"
              /\ KeyRepo(CharKey("n"), inp) \/ KeyWorktree(CharKey("n"), inp)
         /\ world' # world) =>
        /\ pc' = "poll"
        /\ term'.raw /\ term'.alt
        /\ \E i \in 1..Len(state'.wt_entries) :
             /\ exists(world', state'.wt_entries[i].path)
             /\ ~exists(world, state'.wt_entries[i].path)
    ]_vars

\* C39: in run_go, after a successful "new" on the worktree screen, an Enter
\* that follows at once returns the created path, whether the worktree
\* filter is empty or not.
C39_NewThenEnterReturnsCreated ==
  [][ (pc = "poll" /\ app = "go" /\ state.screen = "Worktree"
         /\ state.mode = "Normal"
         /\ \E inp \in InputsFor(CharKey("n")) :
              inp.create = "ok" /\ KeyWorktree(CharKey("n"), inp)
         /\ world' # world /\ pc' = "poll") =>
        LET o == go_handle_worktree_key(
                   state', EnterKey,
                   visible_worktrees_idx(state'.wt_entries, state'.wt_filter),
                   NoInput)
        IN /\ o.ret = "sel"
           /\ exists(world', o.sel.worktree_path)
           /\ ~exists(world, o.sel.worktree_path)
    ]_vars

\* C40: the chord resolution written with three branches (go_tui's
\* repository screen) and the one written with two branches (the picker and
\* both worktree screens) leave the same chord buffer and the same selection,
\* for every prior buffer, every pool keystroke and every assigned code list.
C40_ThreeBranchEqualsTwoBranch ==
  (fn_in.fn = "resolve_chord" /\ fn_out.some)
  => /\ fn_out.val.three.buf = fn_out.val.two.buf
     /\ fn_out.val.three.sel = fn_out.val.two.sel

\* A second symbol has been pushed onto a buffer of one; the two symbols are
\* no code of the list, and both forms have emptied the buffer and kept the
\* selection.
C40_Witness ==
  /\ fn_in.fn = "resolve_chord"
  /\ fn_out.some
  /\ Len(fn_in.buf) = 1
  /\ Len(fn_out.val.pushed) = 2
  /\ code_map_get(assign_hotkeys(fn_in.n, ResolvePool), fn_out.val.pushed) < 0
  /\ fn_out.val.three.buf = <<>>
  /\ fn_out.val.three.sel = SatSub1(fn_in.n)
  /\ fn_in.n >= 2

====
